---- MODULE Spec2Model ----
(***************************************************************************)
(* A model of the backend of aws-computer-use:                             *)
(*   - the resilience layer (backend/utils/retry_handler.py),              *)
(*   - the session registry cache and the websocket proxy of the VNC       *)
(*     bridge (backend/vnc_bridge/app_real.py),                            *)
(*   - the response cache (backend/utils/bedrock_cache.py),                *)
(*   - the API Gateway websocket handler                                   *)
(*     (backend/functions/websocket_handler.py),                           *)
(*   - the action endpoint of the VNC bridge and its protocol client       *)
(*     (backend/vnc_bridge/app.py, backend/vnc_bridge/vnc_client.py),      *)
(*   - the validation of the agent's tools                                 *)
(*     (backend/lambda-packages/bedrock-agent/agents/computer_use_agent.py).*)
(*                                                                         *)
(* Time is an integer clock `now` (the value of time.time()).  Every       *)
(* component has its own specification over the same variables; the        *)
(* variables of the other components stay at their initial values.         *)
(***************************************************************************)
EXTENDS Integers, Sequences, FiniteSets, TLC

VARIABLES
    now,                \* time.time()
    \* ---- CircuitBreaker (retry_handler.py:173-212)
    failure_threshold,  \* self.failure_threshold
    recovery_timeout,   \* self.recovery_timeout
    state,              \* self.state: "closed", "open", "half-open"
    failure_count,      \* self.failure_count
    last_failure_time,  \* self.last_failure_time
    callers,            \* the threads that call the breaker
    pc,                 \* per caller: the line of call() it is at
    tmp,                \* per caller: the value read by `self.failure_count += 1`
    entry,              \* per caller: self.state as read at line 191 (history)
    \* history of the breaker's calls (not program state)
    attempts,           \* number of calls of CircuitBreaker.call so far
    lastCall,           \* the last finished call: how it ended, was it a probe
    consec,             \* trailing consecutive failed invocations of func
    recorded,           \* failures raised by func since the count was last reset
    probeOutcomes,      \* outcomes of the half-open probes seen so far
    \* ---- retry_sync / retry_async and calculate_backoff (retry_handler.py:14-171)
    config,             \* the RetryConfig of the decorator
    rpc,                \* where the wrapper is: "idle", "calling", "sleeping",
                        \* "returned", "raised"
    attempt,            \* the loop variable of the wrapper
    delay,              \* the delay last computed by calculate_backoff
    last_exception,     \* last_exception of the wrapper
    result,             \* what the wrapper gave its caller
    client_closed,      \* the session's client connection has closed
    \* history of the wrapper (not program state)
    invocations,        \* invocations of the wrapped operation so far
    all_retryable,      \* every failure so far was a retryable one
    inv_at_close,       \* invocations made when the client connection closed
    backoffs,           \* the last two calls of calculate_backoff
    \* ---- the session registry cache (app_real.py:22-58)
    session_cache,      \* session_cache: session id -> the session item cached
    sessions_table,     \* the DynamoDB table: session id -> item, kept by the
                        \* session manager
    \* history of the cache (not program state)
    cache_ttl,          \* the TTL of the design; get_desktop_ip has no such
                        \* parameter and reads no clock
    fetch_time,         \* session id -> when its entry was put into the cache
    resolved,           \* number of calls of get_desktop_ip so far
    lookups,            \* number of sessions_table.get_item calls so far
    res,                \* the last call of get_desktop_ip and how it went
    last_result,        \* session id -> what the last resolve of it returned
    \* ---- BedrockCache (bedrock_cache.py:16-193)
    memory_cache,       \* self.memory_cache: cache key -> (value, cached time)
    table,              \* self.table: cache key -> item of the DynamoDB table
    ttl_hours,          \* self.ttl_hours
    stats,              \* self.stats
    \* history of the cache's calls (not program state)
    cache_ops,          \* number of get, put and invalidate_pattern calls so far
    got,                \* the last call of get and how it went
    removed,            \* keys removed by invalidate_pattern and neither looked
                        \* up nor stored again since
    invalidated,        \* the last call of invalidate_pattern
    \* ---- vnc_websocket_proxy (app_real.py:121-178)
    proxy,              \* connection -> the state of its handler, of its two
                        \* relay coroutines, of its two peers and of the
                        \* frames in flight
    \* ---- handle_connect / handle_disconnect (websocket_handler.py:20-83)
    connections_table,  \* the DynamoDB table: connection id -> item
    \* history of the invocations (not program state)
    connect_event,      \* the event of the last $connect
    connect_response,   \* what the last invocation returned
    connect_lookups,    \* number of sessions_table.get_item calls so far
    connect_puts,       \* number of connections_table.put_item calls so far
    gateway_calls,      \* number of invocations so far
    \* ---- VNCBridge and VNCClient (app.py:64-217, vnc_client.py:16-232)
    bridge,             \* the global vnc_bridge, its client, the bytes written
                        \* to the backend stream and the calls made (history)
    \* ---- websocket_endpoint (app.py:336-412)
    stream,             \* the handler of one streaming session, its
                        \* stream_screenshots task, its client and the
                        \* messages in flight
    \* ---- the HTTP handlers of the bridge (app.py:254-333)
    rest,               \* the last request and its response (history)
    \* ---- _send_pointer_event, _send_key_event (vnc_client.py:142-189)
    raw_event,          \* the call of one of the two and its result
    \* ---- the methods of VNCBridge called one after the other
    call,               \* the last call of a method and what it returned
    \* ---- the tools of the agent (computer_use_agent.py:167-257)
    agent               \* the call of a tool and its result

cbVars == <<failure_threshold, recovery_timeout, state, failure_count,
            last_failure_time, callers, pc, tmp, entry, attempts, lastCall,
            consec, recorded, probeOutcomes>>

retryVars == <<config, rpc, attempt, delay, last_exception, result,
               client_closed, invocations, all_retryable, inv_at_close,
               backoffs>>

cacheVars == <<session_cache, sessions_table, cache_ttl, fetch_time,
               resolved, lookups, res, last_result>>

bedrockVars == <<memory_cache, table, ttl_hours, stats, cache_ops, got,
                 removed, invalidated>>

gatewayVars == <<connections_table, connect_event, connect_response,
                 connect_lookups, connect_puts, gateway_calls>>

endpointVars == <<bridge, stream, rest, raw_event, call>>

vars == <<now, cbVars, retryVars, cacheVars, bedrockVars, proxy, gatewayVars,
          endpointVars, agent>>

nonCbVars == <<retryVars, cacheVars, bedrockVars, proxy, gatewayVars,
               endpointVars, agent>>

nonRetryVars == <<now, cbVars, cacheVars, bedrockVars, proxy, gatewayVars,
                  endpointVars, agent>>

\* the cache is read and written by get_desktop_ip and by the proxy, the
\* sessions table is read by the gateway handler
nonCacheVars == <<cbVars, retryVars, bedrockVars, endpointVars, agent>>

nonBedrockVars == <<cbVars, retryVars, cacheVars, proxy, gatewayVars,
                    endpointVars, agent>>

nonEndpointVars == <<now, cbVars, retryVars, cacheVars, bedrockVars, proxy,
                     gatewayVars, agent>>

\* what an action of the streaming session or of an HTTP handler leaves
\* alone besides bridge, stream and rest
otherVars == <<nonEndpointVars, raw_event, call>>

nonAgentVars == <<now, cbVars, retryVars, cacheVars, bedrockVars, proxy,
                  gatewayVars, endpointVars>>

----------------------------------------------------------------------------
(* Bounds of the model *)

MaxThreshold == 3      \* failure_threshold ranges over 1..MaxThreshold
MaxTimeout == 2        \* recovery_timeout ranges over 0..MaxTimeout
MaxTime == 5           \* the clock stops at MaxTime
MaxCalls == 6          \* calls of CircuitBreaker.call per behaviour
NumCallers == 2        \* concurrent callers of one breaker
MaxAttempts == 4       \* max_attempts ranges over 0..MaxAttempts
MaxBackoffAttempt == 5 \* calculate_backoff is applied to attempts 1..MaxBackoffAttempt
JitterSteps == 4       \* random.random() ranges over r / JitterSteps, r < JitterSteps
MaxResolves == 3       \* calls of get_desktop_ip per behaviour
MaxTTL == 2            \* cache_ttl ranges over 1..MaxTTL
MaxCacheOps == 4       \* calls of BedrockCache methods per behaviour
MaxCacheTime == 1      \* the clock of the BedrockCache stops at MaxCacheTime
MaxFrames == 2         \* frames sent by each peer of a proxied connection
MaxConnectFailures == 2 \* connects the backend refuses before it accepts
MaxGatewayCalls == 3   \* invocations of the gateway handler per behaviour
MaxRequests == 2       \* messages the client of a streaming session sends
MaxShots == 1          \* frames captured by stream_screenshots per session
MaxRestCalls == 2      \* HTTP requests to the bridge per behaviour
MaxWords == 4          \* words in a key combination given to keyboard_input
MaxMethodCalls == 3    \* calls of the methods of one VNCBridge object per behaviour

----------------------------------------------------------------------------
(* The clock *)

None == -1             \* last_failure_time = None: no failure yet

Tick ==
    /\ now < MaxTime
    /\ now' = now + 1

----------------------------------------------------------------------------
(* CircuitBreaker                                                          *)
(* expected_exception is the default, Exception (line 180): every error    *)
(* the wrapped operation raises is caught at line 204.                     *)

Threads == 1..NumCallers

CBStates == {"closed", "open", "half-open"}

\* line 192: time.time() - self.last_failure_time > self.recovery_timeout
CBRecovered(t, last) == t - last > recovery_timeout

\* lines 191-195: is the wrapped operation invoked at all
CBAdmits(st, t, last) == st # "open" \/ CBRecovered(t, last)

\* lines 191-193: the state the wrapped operation runs in
CBEntryState(st) == IF st = "open" THEN "half-open" ELSE st

\* lines 199-200
CBStateAfterSuccess(st) == IF st = "half-open" THEN "closed" ELSE st

\* a success in half-open that closes the breaker but keeps the count
CBCountAfterSuccess_keep(st, count) == count

\* lines 199-201
CBCountAfterSuccess(st, count) == IF st = "half-open" THEN 0 ELSE count

\* a threshold test that opens one failure late
CBTrips_late(count) == count > failure_threshold

\* line 208: self.failure_count >= self.failure_threshold
CBTrips(count) == count >= failure_threshold

\* lines 208-209
CBStateAfterFailure(st, count) == IF CBTrips(count) THEN "open" ELSE st

\* lines 185-187
CBInit ==
    /\ state = "closed"
    /\ failure_count = 0
    /\ last_failure_time = None
    /\ pc = [t \in Threads |-> "idle"]
    /\ tmp = [t \in Threads |-> 0]
    /\ entry = [t \in Threads |-> "closed"]
    /\ attempts = 0
    /\ lastCall = [kind |-> "none", probe |-> FALSE]
    /\ consec = 0
    /\ recorded = 0
    /\ probeOutcomes = {}

\* lines 176-187: a breaker with the default arguments, never called
CBIdle ==
    /\ failure_threshold = 5
    /\ recovery_timeout = 60
    /\ CBInit

(* ---- call() run by one caller at a time: the whole method is one step.  *)
(* The wrapped operation takes d ticks.                                    *)

\* lines 191-195: open and not recovered: raise without invoking func
CBCallRejected ==
    /\ attempts < MaxCalls
    /\ ~CBAdmits(state, now, last_failure_time)
    /\ attempts' = attempts + 1
    /\ lastCall' = [kind |-> "rejected", probe |-> FALSE]
    /\ UNCHANGED <<now, failure_threshold, recovery_timeout, state,
                   failure_count, last_failure_time, callers, entry, pc, tmp,
                   consec, recorded, probeOutcomes>>
    /\ UNCHANGED nonCbVars

\* lines 191-193, 198-202: func returns
CBCallSucceeds(d) ==
    /\ attempts < MaxCalls
    /\ now + d <= MaxTime
    /\ CBAdmits(state, now, last_failure_time)
    /\ now' = now + d
    /\ state' = CBStateAfterSuccess(CBEntryState(state))
    /\ failure_count' = CBCountAfterSuccess(CBEntryState(state), failure_count)
    /\ attempts' = attempts + 1
    /\ lastCall' = [kind |-> "ok", probe |-> state = "open"]
    /\ consec' = 0
    /\ recorded' = IF CBEntryState(state) = "half-open" THEN 0 ELSE recorded
    /\ probeOutcomes' = IF state = "open" THEN probeOutcomes \cup {"ok"}
                                          ELSE probeOutcomes
    /\ UNCHANGED <<failure_threshold, recovery_timeout, last_failure_time,
                   callers, entry, pc, tmp>>
    /\ UNCHANGED nonCbVars

\* lines 191-193, 198, 204-212: func raises
CBCallFails(d) ==
    /\ attempts < MaxCalls
    /\ now + d <= MaxTime
    /\ CBAdmits(state, now, last_failure_time)
    /\ now' = now + d
    /\ failure_count' = failure_count + 1
    /\ last_failure_time' = now'
    /\ state' = CBStateAfterFailure(CBEntryState(state), failure_count')
    /\ attempts' = attempts + 1
    /\ lastCall' = [kind |-> "fail", probe |-> state = "open"]
    /\ consec' = consec + 1
    /\ recorded' = recorded + 1
    /\ probeOutcomes' = IF state = "open" THEN probeOutcomes \cup {"fail"}
                                          ELSE probeOutcomes
    /\ UNCHANGED <<failure_threshold, recovery_timeout, callers, entry, pc, tmp>>
    /\ UNCHANGED nonCbVars

CBTick ==
    /\ Tick
    /\ UNCHANGED cbVars
    /\ UNCHANGED nonCbVars

----------------------------------------------------------------------------
(* ---- call() run by concurrent callers of one breaker.  The class holds  *)
(* no lock, so callers interleave between the statements of call(), and    *)
(* `self.failure_count += 1` is a read followed by a write.  pc[t] is the  *)
(* line caller t executes next; "running" is inside the wrapped operation. *)

CBGoto(t, line) == pc' = [pc EXCEPT ![t] = line]

\* call() is entered; line 191: if self.state == 'open'
CBLine191(t) ==
    /\ pc[t] = "idle"
    /\ attempts < MaxCalls
    /\ attempts' = attempts + 1
    /\ entry' = [entry EXCEPT ![t] = state]
    /\ CBGoto(t, IF state = "open" THEN "l192" ELSE "running")
    /\ UNCHANGED <<now, failure_threshold, recovery_timeout, state,
                   failure_count, last_failure_time, callers, tmp, lastCall,
                   consec, recorded, probeOutcomes>>
    /\ UNCHANGED nonCbVars

\* lines 192, 194-195: the timeout test; else raise
CBLine192(t) ==
    /\ pc[t] = "l192"
    /\ CBGoto(t, IF CBRecovered(now, last_failure_time) THEN "l193" ELSE "idle")
    /\ UNCHANGED <<now, failure_threshold, recovery_timeout, state,
                   failure_count, last_failure_time, callers, entry, tmp, attempts,
                   lastCall, consec, recorded, probeOutcomes>>
    /\ UNCHANGED nonCbVars

\* line 193: self.state = 'half-open'; line 198: func is invoked
CBLine193(t) ==
    /\ pc[t] = "l193"
    /\ state' = "half-open"
    /\ CBGoto(t, "running")
    /\ UNCHANGED <<now, failure_threshold, recovery_timeout, failure_count,
                   last_failure_time, callers, entry, tmp, attempts, lastCall,
                   consec, recorded, probeOutcomes>>
    /\ UNCHANGED nonCbVars

\* line 198: func returns
CBFuncReturns(t) ==
    /\ pc[t] = "running"
    /\ CBGoto(t, "l199")
    /\ UNCHANGED <<now, failure_threshold, recovery_timeout, state,
                   failure_count, last_failure_time, callers, entry, tmp, attempts,
                   lastCall, consec, recorded, probeOutcomes>>
    /\ UNCHANGED nonCbVars

\* line 198: func raises; line 204 catches it
CBFuncRaises(t) ==
    /\ pc[t] = "running"
    /\ CBGoto(t, "l205")
    /\ recorded' = recorded + 1
    /\ UNCHANGED <<now, failure_threshold, recovery_timeout, state,
                   failure_count, last_failure_time, callers, entry, tmp, attempts,
                   lastCall, consec, probeOutcomes>>
    /\ UNCHANGED nonCbVars

\* line 199: if self.state == 'half-open'; else line 202: return
CBLine199(t) ==
    /\ pc[t] = "l199"
    /\ CBGoto(t, IF state = "half-open" THEN "l200" ELSE "idle")
    /\ UNCHANGED <<now, failure_threshold, recovery_timeout, state,
                   failure_count, last_failure_time, callers, entry, tmp, attempts,
                   lastCall, consec, recorded, probeOutcomes>>
    /\ UNCHANGED nonCbVars

\* line 200: self.state = 'closed'
CBLine200(t) ==
    /\ pc[t] = "l200"
    /\ state' = "closed"
    /\ CBGoto(t, "l201")
    /\ UNCHANGED <<now, failure_threshold, recovery_timeout, failure_count,
                   last_failure_time, callers, entry, tmp, attempts, lastCall,
                   consec, recorded, probeOutcomes>>
    /\ UNCHANGED nonCbVars

\* line 201: self.failure_count = 0; line 202: return
CBLine201(t) ==
    /\ pc[t] = "l201"
    /\ failure_count' = 0
    /\ recorded' = 0
    /\ CBGoto(t, "idle")
    /\ UNCHANGED <<now, failure_threshold, recovery_timeout, state,
                   last_failure_time, callers, entry, tmp, attempts, lastCall,
                   consec, probeOutcomes>>
    /\ UNCHANGED nonCbVars

\* line 205, first half: self.failure_count is read
CBLine205Read(t) ==
    /\ pc[t] = "l205"
    /\ tmp' = [tmp EXCEPT ![t] = failure_count]
    /\ CBGoto(t, "l205w")
    /\ UNCHANGED <<now, failure_threshold, recovery_timeout, state,
                   failure_count, last_failure_time, callers, entry, attempts,
                   lastCall, consec, recorded, probeOutcomes>>
    /\ UNCHANGED nonCbVars

\* line 205, second half: the value read plus one is stored
CBLine205Write(t) ==
    /\ pc[t] = "l205w"
    /\ failure_count' = tmp[t] + 1
    /\ tmp' = [tmp EXCEPT ![t] = 0]
    /\ CBGoto(t, "l206")
    /\ UNCHANGED <<now, failure_threshold, recovery_timeout, state,
                   last_failure_time, callers, entry, attempts, lastCall, consec,
                   recorded, probeOutcomes>>
    /\ UNCHANGED nonCbVars

\* line 206: self.last_failure_time = time.time()
CBLine206(t) ==
    /\ pc[t] = "l206"
    /\ last_failure_time' = now
    /\ CBGoto(t, "l208")
    /\ UNCHANGED <<now, failure_threshold, recovery_timeout, state,
                   failure_count, callers, entry, tmp, attempts, lastCall, consec,
                   recorded, probeOutcomes>>
    /\ UNCHANGED nonCbVars

\* line 208: the threshold test; else line 212: raise
CBLine208(t) ==
    /\ pc[t] = "l208"
    /\ CBGoto(t, IF CBTrips(failure_count) THEN "l209" ELSE "idle")
    /\ UNCHANGED <<now, failure_threshold, recovery_timeout, state,
                   failure_count, last_failure_time, callers, entry, tmp, attempts,
                   lastCall, consec, recorded, probeOutcomes>>
    /\ UNCHANGED nonCbVars

\* line 209: self.state = 'open'; line 212: raise
CBLine209(t) ==
    /\ pc[t] = "l209"
    /\ state' = "open"
    /\ CBGoto(t, "idle")
    /\ UNCHANGED <<now, failure_threshold, recovery_timeout, failure_count,
                   last_failure_time, callers, entry, tmp, attempts, lastCall,
                   consec, recorded, probeOutcomes>>
    /\ UNCHANGED nonCbVars

CBAllIdle == \A t \in callers : pc[t] = "idle"

\* the callers inside the wrapped operation that entered call() while the
\* breaker was open or half-open
CBProbing == {t \in callers : pc[t] = "running" /\ entry[t] # "closed"}

----------------------------------------------------------------------------
(* RetryConfig, calculate_backoff, is_retryable_exception                  *)
(*                                                                         *)
(* Delays are exact rationals.  initial_delay and max_delay are counted in *)
(* half seconds (0.5 s = 1); a computed delay is counted in units of       *)
(* 1 / DelayScale of a half second, so that the jitter                     *)
(* delay * random.random() * 0.25 with random.random() = r / JitterSteps   *)
(* is the integer delay * r.                                               *)

DelayScale == 4 * JitterSteps

\* lines 31-36: the default retryable_exceptions.  ConnectionError is
\* botocore's (line 9), not the builtin one.
DefaultRetryableExceptions ==
    {"botocore.ConnectionError", "EndpointConnectionError", "TimeoutError"}

\* lines 37-43: the default retryable_status_codes
DefaultRetryableStatusCodes == {429, 500, 502, 503, 504}

\* lines 71-78
RetryableCodes ==
    {"ThrottlingException", "TooManyRequestsException", "RequestLimitExceeded",
     "ServiceUnavailable", "InternalServerError",
     "ProvisionedThroughputExceededException"}

\* lines 16-43: max_attempts is any integer; the initial delays (0.5 s, 1 s,
\* 2 s) and the base 2 are those of the module's configurations (lines 18-21,
\* 215-237), the caps (5 s, 10 s, 30 s) are those the first attempts reach
RetryConfigs ==
    [max_attempts : 0..MaxAttempts,
     initial_delay : {1, 2, 4},
     max_delay : {10, 20, 60},
     exponential_base : {1, 2, 3},
     jitter : BOOLEAN,
     retryable_exceptions : {DefaultRetryableExceptions},
     retryable_status_codes : {DefaultRetryableStatusCodes}]

\* the exceptions the wrapped operation raises: type, and for a ClientError
\* its Error.Code and HTTPStatusCode
NoException == [type |-> "None", code |-> "", status |-> 0]

Exceptions ==
    {[type |-> "EndpointConnectionError", code |-> "", status |-> 0],
     [type |-> "TimeoutError", code |-> "", status |-> 0],
     [type |-> "ConnectionRefusedError", code |-> "", status |-> 0],
     [type |-> "ClientError", code |-> "ThrottlingException", status |-> 400],
     [type |-> "ClientError", code |-> "ValidationException", status |-> 503],
     [type |-> "ClientError", code |-> "AccessDeniedException", status |-> 403]}

\* isinstance(exc, exc_type): EndpointConnectionError derives from botocore's
\* ConnectionError; the builtin ConnectionRefusedError derives from OSError
IsInstance(type, exc_type) ==
    \/ type = exc_type
    \/ type = "EndpointConnectionError" /\ exc_type = "botocore.ConnectionError"

RECURSIVE Pow(_, _)
Pow(b, k) == IF k <= 0 THEN 1 ELSE b * Pow(b, k - 1)

Min(a, b) == IF a <= b THEN a ELSE b

\* lines 47-50: min(initial_delay * exponential_base ** (attempt - 1), max_delay)
BaseDelay(n, cfg) ==
    Min(cfg.initial_delay * Pow(cfg.exponential_base, n - 1), cfg.max_delay)

\* a backoff whose jitter is subtracted
calculate_backoff_minus(n, cfg, r) ==
    IF cfg.jitter
    THEN BaseDelay(n, cfg) * DelayScale - BaseDelay(n, cfg) * r
    ELSE BaseDelay(n, cfg) * DelayScale

\* lines 45-57, with random.random() = r / JitterSteps
calculate_backoff(n, cfg, r) ==
    IF cfg.jitter
    THEN BaseDelay(n, cfg) * DelayScale + BaseDelay(n, cfg) * r
    ELSE BaseDelay(n, cfg) * DelayScale

\* lines 59-83
is_retryable_exception(exc, cfg) ==
    \/ \E exc_type \in cfg.retryable_exceptions : IsInstance(exc.type, exc_type)
    \/ /\ exc.type = "ClientError"
       /\ \/ exc.code \in RetryableCodes
          \/ exc.status \in cfg.retryable_status_codes

----------------------------------------------------------------------------
(* retry_sync.wrapper (lines 92-124) and retry_async.wrapper (lines        *)
(* 136-168): the two loops are the same statement for statement; the       *)
(* wrapper is left at `func(...)` / `await func(...)` and at               *)
(* `time.sleep(delay)` / `await asyncio.sleep(delay)`.                     *)

NoResult == [kind |-> "pending", attempt |-> 0, exc |-> NoException]

RetryIdle ==
    /\ config \in {[max_attempts |-> 3, initial_delay |-> 2, max_delay |-> 120,
                    exponential_base |-> 2, jitter |-> TRUE,
                    retryable_exceptions |-> DefaultRetryableExceptions,
                    retryable_status_codes |-> DefaultRetryableStatusCodes]}
    /\ rpc = "idle"
    /\ attempt = 0
    /\ delay = 0
    /\ last_exception = NoException
    /\ result = NoResult
    /\ client_closed = FALSE
    /\ invocations = 0
    /\ all_retryable = TRUE
    /\ inv_at_close = 0
    /\ backoffs = <<>>

RetryInit ==
    /\ config \in RetryConfigs
    /\ rpc = "idle"
    /\ attempt = 0
    /\ delay = 0
    /\ last_exception = NoException
    /\ result = NoResult
    /\ client_closed = FALSE
    /\ invocations = 0
    /\ all_retryable = TRUE
    /\ inv_at_close = 0
    /\ backoffs = <<>>

\* a test that gives up one attempt early
RetryExhausted_early(n, cfg) == n >= cfg.max_attempts - 1

\* lines 105, 149: attempt >= config.max_attempts
RetryExhausted(n, cfg) == n >= cfg.max_attempts

\* lines 137-141: the wrapper is called; the first attempt invokes func
RetryCall ==
    /\ rpc = "idle"
    /\ config.max_attempts >= 1
    /\ rpc' = "calling"
    /\ attempt' = 1
    /\ invocations' = invocations + 1
    /\ UNCHANGED <<config, delay, last_exception, result, client_closed,
                   all_retryable, inv_at_close, backoffs>>
    /\ UNCHANGED nonRetryVars

\* lines 137-139, 166-168: range(1, max_attempts + 1) is empty, last_exception
\* is None and the wrapper falls off its end: it returns None
RetryCallNoAttempt ==
    /\ rpc = "idle"
    /\ config.max_attempts < 1
    /\ rpc' = "returned"
    /\ result' = [kind |-> "none", attempt |-> 0, exc |-> NoException]
    /\ UNCHANGED <<config, attempt, delay, last_exception, client_closed,
                   invocations, all_retryable, inv_at_close, backoffs>>
    /\ UNCHANGED nonRetryVars

\* lines 141-144: func returns, the wrapper returns its result
RetryFuncReturns ==
    /\ rpc = "calling"
    /\ rpc' = "returned"
    /\ result' = [kind |-> "value", attempt |-> attempt, exc |-> NoException]
    /\ UNCHANGED <<config, attempt, delay, last_exception, client_closed,
                   invocations, all_retryable, inv_at_close, backoffs>>
    /\ UNCHANGED nonRetryVars

\* lines 146-151: func raises on the last attempt: re-raised
RetryFuncRaisesLast(exc) ==
    /\ rpc = "calling"
    /\ RetryExhausted(attempt, config)
    /\ last_exception' = exc
    /\ rpc' = "raised"
    /\ result' = [kind |-> "error", attempt |-> attempt, exc |-> exc]
    /\ all_retryable' = (all_retryable /\ is_retryable_exception(exc, config))
    /\ UNCHANGED <<config, attempt, delay, client_closed, invocations,
                   inv_at_close, backoffs>>
    /\ UNCHANGED nonRetryVars

\* a wrapper that backs off after a non-retryable exception too
RetryFuncRaisesFatal_sleeps(exc) ==
    /\ rpc = "calling"
    /\ ~RetryExhausted(attempt, config)
    /\ ~is_retryable_exception(exc, config)
    /\ last_exception' = exc
    /\ delay' = calculate_backoff(attempt, config, 0)
    /\ rpc' = "sleeping"
    /\ UNCHANGED <<config, attempt, result, client_closed, invocations,
                   all_retryable, inv_at_close, backoffs>>
    /\ UNCHANGED nonRetryVars

\* lines 146-155: func raises a non-retryable exception: re-raised
RetryFuncRaisesFatal(exc) ==
    /\ rpc = "calling"
    /\ ~RetryExhausted(attempt, config)
    /\ ~is_retryable_exception(exc, config)
    /\ last_exception' = exc
    /\ rpc' = "raised"
    /\ result' = [kind |-> "error", attempt |-> attempt, exc |-> exc]
    /\ all_retryable' = FALSE
    /\ UNCHANGED <<config, attempt, delay, client_closed, invocations,
                   inv_at_close, backoffs>>
    /\ UNCHANGED nonRetryVars

\* lines 146-164: func raises a retryable exception before the last attempt:
\* the backoff is computed and the wrapper sleeps
RetryFuncRaisesRetryable(exc, r) ==
    /\ rpc = "calling"
    /\ ~RetryExhausted(attempt, config)
    /\ is_retryable_exception(exc, config)
    /\ last_exception' = exc
    /\ delay' = calculate_backoff(attempt, config, r)
    /\ rpc' = "sleeping"
    /\ UNCHANGED <<config, attempt, result, client_closed, invocations,
                   all_retryable, inv_at_close, backoffs>>
    /\ UNCHANGED nonRetryVars

\* lines 164, 139-141: the sleep ends, the next attempt invokes func; when
\* the loop has run out, lines 166-168 raise last_exception
RetryWakes ==
    /\ rpc = "sleeping"
    /\ IF attempt + 1 <= config.max_attempts
       THEN /\ attempt' = attempt + 1
            /\ rpc' = "calling"
            /\ invocations' = invocations + 1
            /\ UNCHANGED result
       ELSE /\ rpc' = "raised"
            /\ result' = [kind |-> "error", attempt |-> attempt,
                          exc |-> last_exception]
            /\ UNCHANGED <<attempt, invocations>>
    /\ UNCHANGED <<config, delay, last_exception, client_closed,
                   all_retryable, inv_at_close, backoffs>>
    /\ UNCHANGED nonRetryVars

\* calculate_backoff(n, config) is called; the last two calls are kept
BackoffCall(n, r) ==
    /\ backoffs' =
          (IF backoffs = <<>> THEN <<>> ELSE <<backoffs[Len(backoffs)]>>)
          \o <<[attempt |-> n, r |-> r,
                delay |-> calculate_backoff(n, config, r)]>>
    /\ UNCHANGED <<config, rpc, attempt, delay, last_exception, result,
                   client_closed, invocations, all_retryable, inv_at_close>>
    /\ UNCHANGED nonRetryVars

\* The client connection of the session closes while its backend call is
\* inside the wrapper.  The wrapper takes no cancellation token and reads no
\* session state: nothing in lines 136-168 refers to it.
ClientCloses ==
    /\ rpc \in {"calling", "sleeping"}
    /\ ~client_closed
    /\ client_closed' = TRUE
    /\ inv_at_close' = invocations
    /\ UNCHANGED <<config, rpc, attempt, delay, last_exception, result,
                   invocations, all_retryable, backoffs>>
    /\ UNCHANGED nonRetryVars

----------------------------------------------------------------------------
(* The session registry cache: get_desktop_ip (app_real.py:36-58).         *)
(* The function holds no await between its first and its last statement,   *)
(* so a call is one step of the event loop.                                *)

SessionIds == {"abc", "zzz"}

Ips == {"10.0.0.5", "10.0.0.6"}

\* response.get('Item') is None: the table holds no item for the id
NoItem == [task_ip |-> "missing"]

\* the items of the table: only task_ip is read; "" is an item without a
\* task_ip (or with an empty one)
Items == [task_ip : Ips \cup {""}]

\* the value returned for "not found"
NotFound == "None"

\* line 37 and the table before any session exists
CacheIdle ==
    /\ session_cache = <<>>
    /\ sessions_table = [s \in SessionIds |-> NoItem]
    /\ cache_ttl = 1
    /\ fetch_time = [s \in SessionIds |-> None]
    /\ resolved = 0
    /\ lookups = 0
    /\ res = [sid |-> "", result |-> NotFound, hit |-> FALSE, age |-> 0]
    /\ last_result = [s \in SessionIds |-> NotFound]

CacheInit ==
    /\ session_cache = <<>>
    /\ sessions_table \in [SessionIds -> Items \cup {NoItem}]
    /\ cache_ttl \in 1..MaxTTL
    /\ fetch_time = [s \in SessionIds |-> None]
    /\ resolved = 0
    /\ lookups = 0
    /\ res = [sid |-> "", result |-> NotFound, hit |-> FALSE, age |-> 0]
    /\ last_result = [s \in SessionIds |-> NotFound]

\* a cache that is never hit
CacheHit_never(s) == FALSE

\* line 43: session_id in session_cache
CacheHit(s) == s \in DOMAIN session_cache

\* a lookup that caches whatever item the table holds
HasTaskIp_any(item) == item # NoItem

\* line 51: session and session.get('task_ip')
HasTaskIp(item) == item # NoItem /\ item.task_ip # ""

\* line 52: session_cache[session_id] = session
CachePut(s, item) ==
    [x \in (DOMAIN session_cache) \cup {s} |->
        IF x = s THEN item ELSE session_cache[x]]

\* lines 43-44: the entry is returned, whatever its age
ResolveHit(s) ==
    /\ resolved < MaxResolves
    /\ CacheHit(s)
    /\ resolved' = resolved + 1
    /\ res' = [sid |-> s, result |-> session_cache[s].task_ip, hit |-> TRUE,
               age |-> now - fetch_time[s]]
    /\ last_result' = [last_result EXCEPT ![s] = session_cache[s].task_ip]
    /\ UNCHANGED <<now, session_cache, sessions_table, cache_ttl, fetch_time,
                   lookups>>
    /\ UNCHANGED nonCacheVars
    /\ UNCHANGED <<proxy, gatewayVars>>

\* lines 46-53: a miss; the item of the table has a task_ip: it is cached
ResolveLookupFound(s) ==
    /\ resolved < MaxResolves
    /\ ~CacheHit(s)
    /\ HasTaskIp(sessions_table[s])
    /\ session_cache' = CachePut(s, sessions_table[s])
    /\ fetch_time' = [fetch_time EXCEPT ![s] = now]
    /\ resolved' = resolved + 1
    /\ lookups' = lookups + 1
    /\ res' = [sid |-> s, result |-> sessions_table[s].task_ip, hit |-> FALSE,
               age |-> 0]
    /\ last_result' = [last_result EXCEPT ![s] = sessions_table[s].task_ip]
    /\ UNCHANGED <<now, sessions_table, cache_ttl>>
    /\ UNCHANGED nonCacheVars
    /\ UNCHANGED <<proxy, gatewayVars>>

\* lines 46-51, 58: a miss; the table has no item or one without task_ip
ResolveLookupNotFound(s) ==
    /\ resolved < MaxResolves
    /\ ~CacheHit(s)
    /\ ~HasTaskIp(sessions_table[s])
    /\ resolved' = resolved + 1
    /\ lookups' = lookups + 1
    /\ res' = [sid |-> s, result |-> NotFound, hit |-> FALSE, age |-> 0]
    /\ last_result' = [last_result EXCEPT ![s] = NotFound]
    /\ UNCHANGED <<now, session_cache, sessions_table, cache_ttl, fetch_time>>
    /\ UNCHANGED nonCacheVars
    /\ UNCHANGED <<proxy, gatewayVars>>

\* lines 46-48, 55-58: a miss; get_item raises
ResolveLookupRaises(s) ==
    /\ resolved < MaxResolves
    /\ ~CacheHit(s)
    /\ resolved' = resolved + 1
    /\ lookups' = lookups + 1
    /\ res' = [sid |-> s, result |-> NotFound, hit |-> FALSE, age |-> 0]
    /\ last_result' = [last_result EXCEPT ![s] = NotFound]
    /\ UNCHANGED <<now, session_cache, sessions_table, cache_ttl, fetch_time>>
    /\ UNCHANGED nonCacheVars
    /\ UNCHANGED <<proxy, gatewayVars>>

\* the session manager creates, moves or removes a session
TableChanges(s, item) ==
    /\ sessions_table[s] # item
    /\ sessions_table' = [sessions_table EXCEPT ![s] = item]
    /\ UNCHANGED <<now, session_cache, cache_ttl, fetch_time, resolved,
                   lookups, res, last_result>>
    /\ UNCHANGED nonCacheVars
    /\ UNCHANGED <<proxy, gatewayVars>>

CacheTick ==
    /\ Tick
    /\ UNCHANGED cacheVars
    /\ UNCHANGED nonCacheVars
    /\ UNCHANGED <<proxy, gatewayVars>>

----------------------------------------------------------------------------
(* The response cache: BedrockCache (bedrock_cache.py:16-193).             *)
(* For this component one unit of the clock is 300 seconds.  A call of     *)
(* get or put awaits nothing but _update_metrics, after its last access to *)
(* the cache, so a call is one step of the event loop.  The metric sent to *)
(* CloudWatch by _update_metrics is no state of the cache and is left out. *)

\* line 27: self.memory_cache_ttl = 300
memory_cache_ttl == 1

\* line 128: 3600 seconds
TicksPerHour == 12

\* line 120: the least confidence that is cached, in hundredths
MinConfidence == 80

\* the digests of _generate_cache_key, shortened to two characters
CacheKeys == {<<"a", "b">>, <<"b", "c">>, <<"c", "c">>}

\* the patterns given to invalidate_pattern
Patterns == {<<>>, <<"a">>, <<"b">>, <<"c">>, <<"b", "c">>, <<"c", "b">>,
             <<"a", "b", "c">>}

\* the 'action' of a response
Responses == {"click", "type"}

\* the confidence of a response, in hundredths
Confidences == {70, 80}

\* line 19: the ttl_hours given to the constructor; with 0 an item is past
\* its ttl as soon as it is put, with 1 it outlives the behaviour
TTLHours == {0, 1}

\* get_item answers without 'Item'
NoCacheItem == [action |-> "missing", ttl |-> 0]

NoValue == [action |-> "None", cached |-> FALSE]

\* a pattern that matches only at the start of the key
Contains_prefix(pattern, k) ==
    /\ Len(pattern) <= Len(k)
    /\ SubSeq(k, 1, Len(pattern)) = pattern

\* line 159: pattern in k
Contains(pattern, k) ==
    \E i \in 1..(Len(k) - Len(pattern) + 1) :
        SubSeq(k, i, i + Len(pattern) - 1) = pattern

\* lines 59-61: the key is in the memory cache and younger than the TTL
MemoryFresh(k) ==
    /\ k \in DOMAIN memory_cache
    /\ now - memory_cache[k].time < memory_cache_ttl

\* lines 66-68: del self.memory_cache[cache_key]
MemoryWithout(keys) ==
    [k \in (DOMAIN memory_cache) \ keys |-> memory_cache[k]]

\* lines 93, 149: self.memory_cache[cache_key] = (value, time.time())
MemoryPut(mem, k, value) ==
    [x \in (DOMAIN mem) \cup {k} |->
        IF x = k THEN [value |-> value, time |-> now] ELSE mem[x]]

\* lines 76-80: 'Item' in response and item.get('ttl', 0) > int(time.time())
TableValid(k) == table[k] # NoCacheItem /\ table[k].ttl > now

\* lines 19-34 and an empty table
BedrockIdle ==
    /\ memory_cache = <<>>
    /\ table = [k \in CacheKeys |-> NoCacheItem]
    /\ ttl_hours = 0
    /\ stats = [hits |-> 0, misses |-> 0, memory_hits |-> 0]
    /\ cache_ops = 0
    /\ got = [key |-> <<>>, value |-> NoValue, memory_hit |-> FALSE,
              table_read |-> FALSE]
    /\ removed = {}
    /\ invalidated = [pattern |-> <<>>, calls |-> 0]

\* lines 19-34, for any ttl_hours, and an empty table
BedrockInit ==
    /\ memory_cache = <<>>
    /\ table = [k \in CacheKeys |-> NoCacheItem]
    /\ ttl_hours \in TTLHours
    /\ stats = [hits |-> 0, misses |-> 0, memory_hits |-> 0]
    /\ cache_ops = 0
    /\ got = [key |-> <<>>, value |-> NoValue, memory_hit |-> FALSE,
              table_read |-> FALSE]
    /\ removed = {}
    /\ invalidated = [pattern |-> <<>>, calls |-> 0]

\* lines 59-65: served from the memory cache
BedrockGetMemoryHit(k) ==
    /\ cache_ops < MaxCacheOps
    /\ MemoryFresh(k)
    /\ stats' = [stats EXCEPT !.memory_hits = @ + 1, !.hits = @ + 1]
    /\ got' = [key |-> k, value |-> memory_cache[k].value,
               memory_hit |-> TRUE, table_read |-> FALSE]
    /\ cache_ops' = cache_ops + 1
    /\ removed' = removed \ {k}
    /\ UNCHANGED <<now, memory_cache, table, ttl_hours, invalidated>>
    /\ UNCHANGED nonBedrockVars

\* lines 59-100: not in the memory cache, or expired and deleted from it;
\* the item of the table is valid and is stored in the memory cache
BedrockGetTableHit(k) ==
    /\ cache_ops < MaxCacheOps
    /\ ~MemoryFresh(k)
    /\ TableValid(k)
    /\ stats' = [stats EXCEPT !.hits = @ + 1]
    /\ memory_cache' = MemoryPut(MemoryWithout({k}), k,
                                 [action |-> table[k].action, cached |-> TRUE])
    /\ got' = [key |-> k,
               value |-> [action |-> table[k].action, cached |-> TRUE],
               memory_hit |-> FALSE, table_read |-> TRUE]
    /\ cache_ops' = cache_ops + 1
    /\ removed' = removed \ {k}
    /\ UNCHANGED <<now, table, ttl_hours, invalidated>>
    /\ UNCHANGED nonBedrockVars

\* lines 59-80, 102-104: the table has no item or one past its ttl
BedrockGetMiss(k) ==
    /\ cache_ops < MaxCacheOps
    /\ ~MemoryFresh(k)
    /\ ~TableValid(k)
    /\ stats' = [stats EXCEPT !.misses = @ + 1]
    /\ memory_cache' = MemoryWithout({k})
    /\ got' = [key |-> k, value |-> NoValue, memory_hit |-> FALSE,
               table_read |-> TRUE]
    /\ cache_ops' = cache_ops + 1
    /\ removed' = removed \ {k}
    /\ UNCHANGED <<now, table, ttl_hours, invalidated>>
    /\ UNCHANGED nonBedrockVars

\* lines 59-74, 106-108: get_item raises ClientError
BedrockGetRaises(k) ==
    /\ cache_ops < MaxCacheOps
    /\ ~MemoryFresh(k)
    /\ memory_cache' = MemoryWithout({k})
    /\ got' = [key |-> k, value |-> NoValue, memory_hit |-> FALSE,
               table_read |-> TRUE]
    /\ cache_ops' = cache_ops + 1
    /\ removed' = removed \ {k}
    /\ UNCHANGED <<now, table, ttl_hours, stats, invalidated>>
    /\ UNCHANGED nonBedrockVars

\* lines 120-122: a response of low confidence is not stored
BedrockPutSkipped(k, r, conf) ==
    /\ cache_ops < MaxCacheOps
    /\ conf < MinConfidence
    /\ cache_ops' = cache_ops + 1
    /\ UNCHANGED <<now, memory_cache, table, ttl_hours, stats, got, removed,
                   invalidated>>
    /\ UNCHANGED nonBedrockVars

\* lines 124-151: the response is stored in the table and in the memory cache
BedrockPut(k, r, conf) ==
    /\ cache_ops < MaxCacheOps
    /\ conf >= MinConfidence
    /\ table' = [table EXCEPT ![k] =
                    [action |-> r, ttl |-> now + ttl_hours * TicksPerHour]]
    /\ memory_cache' = MemoryPut(memory_cache, k,
                                 [action |-> r, cached |-> FALSE])
    /\ cache_ops' = cache_ops + 1
    /\ removed' = removed \ {k}
    /\ UNCHANGED <<now, ttl_hours, stats, got, invalidated>>
    /\ UNCHANGED nonBedrockVars

\* lines 124-146, 153-154: put_item raises ClientError
BedrockPutRaises(k, r, conf) ==
    /\ cache_ops < MaxCacheOps
    /\ conf >= MinConfidence
    /\ cache_ops' = cache_ops + 1
    /\ UNCHANGED <<now, memory_cache, table, ttl_hours, stats, got, removed,
                   invalidated>>
    /\ UNCHANGED nonBedrockVars

\* line 159: keys_to_remove
KeysToRemove(pattern) == {k \in DOMAIN memory_cache : Contains(pattern, k)}

\* lines 156-163
invalidate_pattern(pattern) ==
    /\ cache_ops < MaxCacheOps
    /\ memory_cache' = MemoryWithout(KeysToRemove(pattern))
    /\ removed' = removed \cup KeysToRemove(pattern)
    /\ invalidated' = [pattern |-> pattern, calls |-> invalidated.calls + 1]
    /\ cache_ops' = cache_ops + 1
    /\ UNCHANGED <<now, table, ttl_hours, stats, got>>
    /\ UNCHANGED nonBedrockVars

BedrockTick ==
    /\ now < MaxCacheTime
    /\ Tick
    /\ UNCHANGED bedrockVars
    /\ UNCHANGED nonBedrockVars

----------------------------------------------------------------------------
(* The VNC websocket proxy: vnc_websocket_proxy (app_real.py:121-178).     *)
(* The handler of a connection and its two relay coroutines run on one     *)
(* event loop: a step is the code between two awaits.  The client and the  *)
(* backend (the desktop container's websockify) are the environment.       *)
(*   proxy[c].hpc        where the handler of connection c is              *)
(*   proxy[c].c2v, .v2c  where client_to_vnc and vnc_to_client are         *)
(*   proxy[c].client     "connected" or "gone": the client's side          *)
(*   proxy[c].backend    "up" or "closed": the backend's side              *)
(*   proxy[c].websocket  "new", "accepted" or "closed": the handler's side *)
(*                       of the client connection                          *)
(*   proxy[c].vnc_ws     "none", "open" or "closed": the handler's side of *)
(*                       the backend connection                            *)
(* The other fields are the messages in flight and the history of the      *)
(* connection.                                                             *)

Conns == {"c1", "c2"}

\* the frames a websocket carries
Frames == {[kind |-> "bytes", body |-> 1], [kind |-> "bytes", body |-> 2],
           [kind |-> "text", body |-> 1]}

NoReport == "none"

\* line 130 and line 169: the error payloads
SessionNotFound == "Session not found"

ConnectError == "str(e)"

\* a connection nobody has opened yet
ProxyNew(s, fails) ==
    [session_id |-> s, hpc |-> "accept", c2v |-> "idle", v2c |-> "idle",
     client |-> "connected", backend |-> "up", websocket |-> "new",
     vnc_ws |-> "none", desktop_ip |-> NotFound,
     from_client |-> <<>>, c2v_read |-> 0, to_vnc |-> <<>>,
     from_vnc |-> <<>>, v2c_read |-> 0, to_client |-> <<>>,
     reported |-> NoReport, connects |-> 0, backend_fails |-> fails]

ProxyIdle == proxy = [c \in Conns |-> ProxyNew("abc", 0)]

\* any session id; the backend refuses the first backend_fails connects
ProxyInit ==
    proxy \in [Conns -> {ProxyNew(s, fails) :
                            s \in SessionIds, fails \in 0..MaxConnectFailures}]

Set(c, changes) == proxy' = [proxy EXCEPT ![c] = changes]

\* lines 39-58: what get_desktop_ip returns; raises: get_item raises
get_desktop_ip(s, raises) ==
    IF CacheHit(s) THEN session_cache[s].task_ip
    ELSE IF ~raises /\ HasTaskIp(sessions_table[s])
         THEN sessions_table[s].task_ip
         ELSE NotFound

\* lines 129 and 140: a connect is tried whatever the lookup returned
Resolved_any(ip) == TRUE

\* line 129: if not desktop_ip
Resolved(ip) == ip # NotFound /\ ip # ""

\* line 125: await websocket.accept()
ProxyAccept(c) ==
    /\ proxy[c].hpc = "accept"
    /\ Set(c, [proxy[c] EXCEPT !.hpc = "resolve", !.websocket = "accepted"])
    /\ UNCHANGED <<now, cacheVars>>
    /\ UNCHANGED <<nonCacheVars, gatewayVars>>

\* lines 128-129: desktop_ip = await get_desktop_ip(session_id)
ProxyResolve(c, raises) ==
    LET s == proxy[c].session_id
        ip == get_desktop_ip(s, raises)
        stored == ~CacheHit(s) /\ ip # NotFound
    IN  /\ proxy[c].hpc = "resolve"
        /\ raises => ~CacheHit(s)
        /\ session_cache' = IF stored THEN CachePut(s, sessions_table[s])
                            ELSE session_cache
        /\ fetch_time' = IF stored THEN [fetch_time EXCEPT ![s] = now]
                         ELSE fetch_time
        /\ resolved' = resolved + 1
        /\ lookups' = IF CacheHit(s) THEN lookups ELSE lookups + 1
        /\ res' = [sid |-> s, result |-> ip, hit |-> CacheHit(s),
                   age |-> IF CacheHit(s) THEN now - fetch_time[s] ELSE 0]
        /\ last_result' = [last_result EXCEPT ![s] = ip]
        /\ Set(c, [proxy[c] EXCEPT
                      !.desktop_ip = ip,
                      !.hpc = IF Resolved(ip) THEN "connect" ELSE "nf_send"])
        /\ UNCHANGED <<now, sessions_table, cache_ttl>>
        /\ UNCHANGED <<nonCacheVars, gatewayVars>>

\* line 130: await websocket.send_text(...); with the client gone the send
\* raises out of the handler or is dropped by the server
ProxyNotFoundSend(c, send_raises) ==
    /\ proxy[c].hpc = "nf_send"
    /\ send_raises => proxy[c].client = "gone"
    /\ Set(c, [proxy[c] EXCEPT
                  !.reported = IF proxy[c].client = "connected"
                               THEN SessionNotFound ELSE @,
                  !.hpc = IF send_raises THEN "raised" ELSE "nf_close"])
    /\ UNCHANGED <<now, cacheVars>>
    /\ UNCHANGED <<nonCacheVars, gatewayVars>>

\* lines 131-132: await websocket.close(); return
ProxyNotFoundClose(c, close_raises) ==
    /\ proxy[c].hpc = "nf_close"
    /\ close_raises => proxy[c].client = "gone"
    /\ Set(c, [proxy[c] EXCEPT
                  !.websocket = "closed",
                  !.hpc = IF close_raises THEN "raised" ELSE "done"])
    /\ UNCHANGED <<now, cacheVars>>
    /\ UNCHANGED <<nonCacheVars, gatewayVars>>

\* line 140: vnc_ws = await websockets.connect(vnc_url), the backend accepts;
\* line 164: both relay coroutines start
ProxyConnect(c) ==
    /\ proxy[c].hpc = "connect"
    /\ proxy[c].connects >= proxy[c].backend_fails
    /\ Set(c, [proxy[c] EXCEPT !.connects = @ + 1, !.vnc_ws = "open",
                               !.hpc = "gather", !.c2v = "receive",
                               !.v2c = "next"])
    /\ UNCHANGED <<now, cacheVars>>
    /\ UNCHANGED <<nonCacheVars, gatewayVars>>

\* a failed connect after which the relay coroutines start all the same
ProxyConnectRaises_relays(c) ==
    /\ proxy[c].hpc = "connect"
    /\ proxy[c].connects < proxy[c].backend_fails
    /\ Set(c, [proxy[c] EXCEPT !.connects = @ + 1, !.hpc = "gather",
                               !.c2v = "receive", !.v2c = "next"])
    /\ UNCHANGED <<now, cacheVars>>
    /\ UNCHANGED <<nonCacheVars, gatewayVars>>

\* lines 140, 166-167: websockets.connect raises
ProxyConnectRaises(c) ==
    /\ proxy[c].hpc = "connect"
    /\ proxy[c].connects < proxy[c].backend_fails
    /\ Set(c, [proxy[c] EXCEPT !.connects = @ + 1, !.hpc = "err_send"])
    /\ UNCHANGED <<now, cacheVars>>
    /\ UNCHANGED <<nonCacheVars, gatewayVars>>

\* lines 168-171: the error is sent to the client, a failure of the send is
\* swallowed
ProxyErrorSend(c) ==
    /\ proxy[c].hpc = "err_send"
    /\ Set(c, [proxy[c] EXCEPT
                  !.reported = IF proxy[c].client = "connected"
                               THEN ConnectError ELSE @,
                  !.hpc = "finally"])
    /\ UNCHANGED <<now, cacheVars>>
    /\ UNCHANGED <<nonCacheVars, gatewayVars>>

\* line 146: data = await websocket.receive_bytes(), a bytes frame arrived
C2VReceive(c) ==
    /\ proxy[c].c2v = "receive"
    /\ proxy[c].c2v_read < Len(proxy[c].from_client)
    /\ proxy[c].from_client[proxy[c].c2v_read + 1].kind = "bytes"
    /\ Set(c, [proxy[c] EXCEPT !.c2v_read = @ + 1, !.c2v = "send"])
    /\ UNCHANGED <<now, cacheVars>>
    /\ UNCHANGED <<nonCacheVars, gatewayVars>>

\* lines 146, 150-151: a text frame arrived: receive_bytes finds no bytes in
\* it and raises
C2VReceiveRaises(c) ==
    /\ proxy[c].c2v = "receive"
    /\ proxy[c].c2v_read < Len(proxy[c].from_client)
    /\ proxy[c].from_client[proxy[c].c2v_read + 1].kind = "text"
    /\ Set(c, [proxy[c] EXCEPT !.c2v_read = @ + 1, !.c2v = "done"])
    /\ UNCHANGED <<now, cacheVars>>
    /\ UNCHANGED <<nonCacheVars, gatewayVars>>

\* lines 146, 148-149: WebSocketDisconnect, after the frames sent before it
C2VDisconnect(c) ==
    /\ proxy[c].c2v = "receive"
    /\ proxy[c].c2v_read = Len(proxy[c].from_client)
    /\ proxy[c].client = "gone"
    /\ Set(c, [proxy[c] EXCEPT !.c2v = "done"])
    /\ UNCHANGED <<now, cacheVars>>
    /\ UNCHANGED <<nonCacheVars, gatewayVars>>

\* what the backend has got once a frame was written to it
Forward_twice(delivered, frame) == delivered \o <<frame, frame>>

\* lines 147, 157, 159: the frame is sent as it was received
Forward(delivered, frame) == Append(delivered, frame)

\* line 147: await vnc_ws.send(data); lines 150-151 when the backend has
\* closed
C2VSend(c) ==
    /\ proxy[c].c2v = "send"
    /\ Set(c, IF proxy[c].backend = "up"
              THEN [proxy[c] EXCEPT
                       !.to_vnc = Forward(@, proxy[c].from_client[proxy[c].c2v_read]),
                       !.c2v = "receive"]
              ELSE [proxy[c] EXCEPT !.c2v = "done"])
    /\ UNCHANGED <<now, cacheVars>>
    /\ UNCHANGED <<nonCacheVars, gatewayVars>>

\* line 155: async for message in vnc_ws, a frame arrived
V2CNext(c) ==
    /\ proxy[c].v2c = "next"
    /\ proxy[c].v2c_read < Len(proxy[c].from_vnc)
    /\ Set(c, [proxy[c] EXCEPT !.v2c_read = @ + 1, !.v2c = "send"])
    /\ UNCHANGED <<now, cacheVars>>
    /\ UNCHANGED <<nonCacheVars, gatewayVars>>

\* lines 155, 160-161: the backend has closed: the iteration ends or raises
V2CEnd(c) ==
    /\ proxy[c].v2c = "next"
    /\ proxy[c].v2c_read = Len(proxy[c].from_vnc)
    /\ proxy[c].backend = "closed"
    /\ Set(c, [proxy[c] EXCEPT !.v2c = "done"])
    /\ UNCHANGED <<now, cacheVars>>
    /\ UNCHANGED <<nonCacheVars, gatewayVars>>

\* lines 156-159: a bytes message goes out by send_bytes, a str message by
\* send_text
AsSent(message) ==
    IF message.kind = "bytes"
    THEN [kind |-> "bytes", body |-> message.body]
    ELSE [kind |-> "text", body |-> message.body]

\* lines 156-159: send_bytes or send_text; with the client gone the send
\* raises (lines 160-161) or the frame is dropped by the server
V2CSend(c, send_raises) ==
    /\ proxy[c].v2c = "send"
    /\ send_raises => proxy[c].client = "gone"
    /\ Set(c, IF proxy[c].client = "connected"
              THEN [proxy[c] EXCEPT
                       !.to_client = Forward(@, AsSent(proxy[c].from_vnc[proxy[c].v2c_read])),
                       !.v2c = "next"]
              ELSE [proxy[c] EXCEPT
                       !.v2c = IF send_raises THEN "done" ELSE "next"])
    /\ UNCHANGED <<now, cacheVars>>
    /\ UNCHANGED <<nonCacheVars, gatewayVars>>

\* line 164: asyncio.gather returns when both coroutines have returned
ProxyGatherReturns(c) ==
    /\ proxy[c].hpc = "gather"
    /\ proxy[c].c2v = "done"
    /\ proxy[c].v2c = "done"
    /\ Set(c, [proxy[c] EXCEPT !.hpc = "finally"])
    /\ UNCHANGED <<now, cacheVars>>
    /\ UNCHANGED <<nonCacheVars, gatewayVars>>

\* a finally block that leaves the backend connection as it is
VncWsAfterFinally_leak(ws) == ws

\* lines 173-174: if vnc_ws: await vnc_ws.close()
VncWsAfterFinally(ws) == IF ws = "none" THEN ws ELSE "closed"

\* lines 172-174: the finally block closes the backend connection, if any
ProxyFinallyVnc(c) ==
    /\ proxy[c].hpc = "finally"
    /\ Set(c, [proxy[c] EXCEPT
                  !.vnc_ws = VncWsAfterFinally(@),
                  !.backend = IF VncWsAfterFinally(proxy[c].vnc_ws) = "closed"
                              THEN "closed" ELSE @,
                  !.hpc = "finally_close"])
    /\ UNCHANGED <<now, cacheVars>>
    /\ UNCHANGED <<nonCacheVars, gatewayVars>>

\* lines 175-178: await websocket.close(), a failure of it is swallowed
ProxyFinallyClose(c) ==
    /\ proxy[c].hpc = "finally_close"
    /\ Set(c, [proxy[c] EXCEPT !.websocket = "closed", !.hpc = "done"])
    /\ UNCHANGED <<now, cacheVars>>
    /\ UNCHANGED <<nonCacheVars, gatewayVars>>

\* the client sends a frame
ClientSends(c, frame) ==
    /\ proxy[c].websocket = "accepted"
    /\ proxy[c].client = "connected"
    /\ Len(proxy[c].from_client) < MaxFrames
    /\ Set(c, [proxy[c] EXCEPT !.from_client = Append(@, frame)])
    /\ UNCHANGED <<now, cacheVars>>
    /\ UNCHANGED <<nonCacheVars, gatewayVars>>

\* the client closes its connection
ClientDisconnects(c) ==
    /\ proxy[c].websocket = "accepted"
    /\ proxy[c].client = "connected"
    /\ Set(c, [proxy[c] EXCEPT !.client = "gone"])
    /\ UNCHANGED <<now, cacheVars>>
    /\ UNCHANGED <<nonCacheVars, gatewayVars>>

\* the backend sends a frame
BackendSends(c, frame) ==
    /\ proxy[c].vnc_ws = "open"
    /\ proxy[c].backend = "up"
    /\ Len(proxy[c].from_vnc) < MaxFrames
    /\ Set(c, [proxy[c] EXCEPT !.from_vnc = Append(@, frame)])
    /\ UNCHANGED <<now, cacheVars>>
    /\ UNCHANGED <<nonCacheVars, gatewayVars>>

\* the backend closes the connection, or its stream ends
BackendCloses(c) ==
    /\ proxy[c].vnc_ws = "open"
    /\ proxy[c].backend = "up"
    /\ Set(c, [proxy[c] EXCEPT !.backend = "closed"])
    /\ UNCHANGED <<now, cacheVars>>
    /\ UNCHANGED <<nonCacheVars, gatewayVars>>

\* the steps of the handler of c and of its relay coroutines
ProxyStep(c) ==
    \/ ProxyAccept(c)
    \/ \E raises \in BOOLEAN : ProxyResolve(c, raises)
    \/ \E send_raises \in BOOLEAN : ProxyNotFoundSend(c, send_raises)
    \/ \E close_raises \in BOOLEAN : ProxyNotFoundClose(c, close_raises)
    \/ ProxyConnect(c)
    \/ ProxyConnectRaises(c)
    \/ ProxyErrorSend(c)
    \/ C2VReceive(c)
    \/ C2VReceiveRaises(c)
    \/ C2VDisconnect(c)
    \/ C2VSend(c)
    \/ V2CNext(c)
    \/ V2CEnd(c)
    \/ \E send_raises \in BOOLEAN : V2CSend(c, send_raises)
    \/ ProxyGatherReturns(c)
    \/ ProxyFinallyVnc(c)
    \/ ProxyFinallyClose(c)

\* the steps of the client and of the backend of c
ProxyEnvironment(c) ==
    \/ \E frame \in Frames : ClientSends(c, frame)
    \/ ClientDisconnects(c)
    \/ \E frame \in Frames : BackendSends(c, frame)
    \/ BackendCloses(c)

\* the event loop runs one coroutine at a time, and get_desktop_ip holds no
\* await (lines 39-58): from the return of accept to the return of get_item
\* (line 47, a synchronous boto3 call) the handler of d is the coroutine the
\* loop is running
Running(d) == proxy[d].hpc = "resolve"

\* the loop can run a coroutine of connection c
Scheduled(c) == \A d \in Conns \ {c} : ~Running(d)

\* a step of the handler of c or of its relay coroutines, taken by the event
\* loop shared by all connections
LoopStep(c) ==
    \/ Scheduled(c) /\ ProxyAccept(c)
    \/ Scheduled(c) /\ \E raises \in BOOLEAN : ProxyResolve(c, raises)
    \/ Scheduled(c) /\ \E send_raises \in BOOLEAN :
                          ProxyNotFoundSend(c, send_raises)
    \/ Scheduled(c) /\ \E close_raises \in BOOLEAN :
                          ProxyNotFoundClose(c, close_raises)
    \/ Scheduled(c) /\ ProxyConnect(c)
    \/ Scheduled(c) /\ ProxyConnectRaises(c)
    \/ Scheduled(c) /\ ProxyErrorSend(c)
    \/ Scheduled(c) /\ C2VReceive(c)
    \/ Scheduled(c) /\ C2VReceiveRaises(c)
    \/ Scheduled(c) /\ C2VDisconnect(c)
    \/ Scheduled(c) /\ C2VSend(c)
    \/ Scheduled(c) /\ V2CNext(c)
    \/ Scheduled(c) /\ V2CEnd(c)
    \/ Scheduled(c) /\ \E send_raises \in BOOLEAN : V2CSend(c, send_raises)
    \/ Scheduled(c) /\ ProxyGatherReturns(c)
    \/ Scheduled(c) /\ ProxyFinallyVnc(c)
    \/ Scheduled(c) /\ ProxyFinallyClose(c)

----------------------------------------------------------------------------
(* The API Gateway websocket handler: handle_connect and handle_disconnect *)
(* (websocket_handler.py:20-83).  Every invocation of the Lambda function  *)
(* runs from start to end on state kept in the two DynamoDB tables.  A     *)
(* dictionary is modelled as its set of <<key, value>> pairs.  The         *)
(* $connect event of a websocket API carries the key queryStringParameters *)
(* only when the request has a query string.                               *)

ConnectionIds == {"k1", "k2"}

\* the query strings of a $connect request
QueryStrings ==
    {{}, {<<"token", "t">>}, {<<"sessionId", "">>},
     {<<"sessionId", "abc">>}, {<<"sessionId", "zzz">>, <<"token", "t">>}}

\* the $connect events: without a query string the event has no
\* queryStringParameters
ConnectEvents ==
    {[connectionId |-> k, has_query |-> FALSE, queryStringParameters |-> {}] :
        k \in ConnectionIds}
    \cup {[connectionId |-> k, has_query |-> TRUE, queryStringParameters |-> q] :
            k \in ConnectionIds, q \in QueryStrings \ {{}}}

NoEvent == [connectionId |-> "", has_query |-> FALSE, queryStringParameters |-> {}]

\* dict.get(key) of a key the dictionary does not have
PyNone == "None"

\* dict.get(key)
Get(dict, key) ==
    IF \E kv \in dict : kv[1] = key
    THEN (CHOOSE kv \in dict : kv[1] = key)[2]
    ELSE PyNone

\* lines 41-42: event.get('queryStringParameters', {}).get('sessionId')
SessionIdOf(event) ==
    Get(IF event.has_query THEN event.queryStringParameters ELSE {},
        "sessionId")

\* a test that lets the empty string through
Falsy_none(value) == value = PyNone

\* line 44: not session_id
Falsy(value) == value = PyNone \/ value = ""

\* lines 50-51: 'Item' in response
HasItem(s) == s \in SessionIds /\ sessions_table[s] # NoItem

NoConnection == [session_id |-> "", connected_at |-> None]

Response(code, body) == [statusCode |-> code, body |-> body]

NoResponse == Response(0, "")

GatewayIdle ==
    /\ connections_table = [k \in ConnectionIds |-> NoConnection]
    /\ connect_event = NoEvent
    /\ connect_response = NoResponse
    /\ connect_lookups = 0
    /\ connect_puts = 0
    /\ gateway_calls = 0

\* what an invocation leaves behind: the event, the response, the calls made
Invoked(event, response, looked_up, put) ==
    /\ gateway_calls < MaxGatewayCalls
    /\ gateway_calls' = gateway_calls + 1
    /\ connect_event' = event
    /\ connect_response' = response
    /\ connect_lookups' = connect_lookups + (IF looked_up THEN 1 ELSE 0)
    /\ connect_puts' = connect_puts + (IF put THEN 1 ELSE 0)
    /\ UNCHANGED <<now, cacheVars, proxy>>
    /\ UNCHANGED nonCacheVars

\* lines 41-45: no session id
ConnectMissingSession(event) ==
    /\ Falsy(SessionIdOf(event))
    /\ Invoked(event, Response(400, "Missing sessionId parameter"), FALSE, FALSE)
    /\ UNCHANGED connections_table

\* lines 48-50, 53-55: get_item raises
ConnectLookupRaises(event) ==
    /\ ~Falsy(SessionIdOf(event))
    /\ Invoked(event, Response(500, "Internal error"), TRUE, FALSE)
    /\ UNCHANGED connections_table

\* lines 48-52: the sessions table has no item for the id
ConnectSessionNotFound(event) ==
    /\ ~Falsy(SessionIdOf(event))
    /\ ~HasItem(SessionIdOf(event))
    /\ Invoked(event, Response(404, "Session not found"), TRUE, FALSE)
    /\ UNCHANGED connections_table

\* lines 58-60, 67-69: put_item raises
ConnectStoreRaises(event) ==
    /\ ~Falsy(SessionIdOf(event))
    /\ HasItem(SessionIdOf(event))
    /\ Invoked(event, Response(500, "Failed to store connection"), TRUE, TRUE)
    /\ UNCHANGED connections_table

\* lines 58-66, 71: the connection is stored
ConnectStored(event) ==
    /\ ~Falsy(SessionIdOf(event))
    /\ HasItem(SessionIdOf(event))
    /\ Invoked(event, Response(200, "Connected"), TRUE, TRUE)
    /\ connections_table' =
           [connections_table EXCEPT ![event.connectionId] =
               [session_id |-> SessionIdOf(event), connected_at |-> now]]

\* lines 73-83: the connection is deleted; a failure of delete_item is
\* swallowed
handle_disconnect(k, delete_raises) ==
    /\ Invoked(connect_event, Response(200, "Disconnected"), FALSE, FALSE)
    /\ connections_table' =
           IF delete_raises THEN connections_table
           ELSE [connections_table EXCEPT ![k] = NoConnection]

GatewayTick ==
    /\ Tick
    /\ UNCHANGED <<cacheVars, proxy, gatewayVars>>
    /\ UNCHANGED nonCacheVars

----------------------------------------------------------------------------
(* The protocol client: VNCClient (vnc_client.py:16-232), and the bridge   *)
(* that calls it: VNCBridge (app.py:64-217).                               *)
(*   bridge.client     "VNCClient", or "None" when USE_REAL_VNC is false   *)
(*                     (app.py:36-41, 73-76)                               *)
(*   bridge.vncdotool  `import vncdotool.api` finds the library            *)
(*   bridge.s3         S3_BUCKET and SESSION_ID are set (app.py:27-28)     *)
(*   bridge.connected  self.connected of the bridge                        *)
(*   bridge.vnc_api    self.vnc_api of the client is set                   *)
(*   bridge.writer     "absent", or "open": the client has the attribute   *)
(*                     writer, the stream to the backend                   *)
(*   bridge.backend    "up" or "closed": the backend's end of that stream  *)
(*   bridge.written    the messages written to the stream, each a sequence *)
(*                     of bytes (history)                                  *)
(*   bridge.api        the calls made on the vncdotool client (history)    *)
(*   bridge.calls      the calls made on the VNCClient (history)           *)
(* A method of the bridge is one step: the only other coroutine of a       *)
(* session, stream_screenshots, writes nothing to the backend stream.      *)

NoClient == "None"

\* struct.pack with a format '!...': network byte order, standard sizes, no
\* padding.  A format is the sequence of its codes.
CodeSize(code) ==
    CASE code = "B" -> 1
      [] code = "H" -> 2
      [] code = "I" -> 4

Pow256(n) ==
    CASE n = 0 -> 1
      [] n = 1 -> 256
      [] n = 2 -> 65536
      [] n = 3 -> 16777216

\* an unsigned integer of the code's size
InRange(code, v) == v >= 0 /\ v \div Pow256(CodeSize(code) - 1) < 256

\* the n bytes of v, least significant byte first
BigEndian_reversed(v, n) == [i \in 1..n |-> (v \div Pow256(i - 1)) % 256]

\* the n bytes of v, most significant byte first
BigEndian(v, n) == [i \in 1..n |-> (v \div Pow256(n - i)) % 256]

RECURSIVE PackedFields(_, _)
PackedFields(fmt, values) ==
    IF fmt = <<>> THEN <<>>
    ELSE BigEndian(Head(values), CodeSize(Head(fmt)))
            \o PackedFields(Tail(fmt), Tail(values))

\* struct.pack(fmt, *values): struct.error when the number of values is not
\* the number of codes or a value is out of the range of its code
pack(fmt, values) ==
    IF \/ Len(fmt) # Len(values)
       \/ \E i \in 1..Len(fmt) : ~InRange(fmt[i], values[i])
    THEN [raised |-> TRUE, msg |-> <<>>]
    ELSE [raised |-> FALSE, msg |-> PackedFields(fmt, values)]

\* vnc_client.py:149: struct.pack('!BBHH', 5, button_mask, x, y)
PointerEventMsg(x, y, button_mask) ==
    pack(<<"B", "B", "H", "H">>, <<5, button_mask, x, y>>)

\* vnc_client.py:182: struct.pack('!BBHHI', 4, 1 if down else 0, 0, key)
KeyEventMsg(key, down) ==
    pack(<<"B", "B", "H", "H", "I">>, <<4, IF down THEN 1 ELSE 0, 0, key>>)

\* the bridge as VNCBridge.__init__ and VNCClient.__init__ leave it
BridgeNew(client, vncdotool, s3) ==
    [use_real_vnc |-> client # NoClient,
     client |-> client, vncdotool |-> vncdotool, s3 |-> s3,
     connected |-> FALSE, vnc_api |-> FALSE, writer |-> "absent",
     backend |-> "up", hello |-> <<>>,
     written |-> <<>>, api |-> <<>>, calls |-> <<>>]

Returns(b, ret) == [b |-> b, ret |-> ret]

\* vnc_client.py:142-156: the message is packed and written to the stream;
\* a struct.error and a failure of the stream are caught
send_pointer_event(b, x, y, button_mask) ==
    LET packed == PointerEventMsg(x, y, button_mask)
    IN  IF b.writer = "absent" THEN Returns(b, FALSE)
        ELSE IF packed.raised \/ b.writer = "closed" \/ b.backend = "closed"
        THEN Returns(b, FALSE)
        ELSE Returns([b EXCEPT !.written = Append(@, packed.msg)], TRUE)

\* vnc_client.py:175-189
send_key_event(b, key, down) ==
    LET packed == KeyEventMsg(key, down)
    IN  IF b.writer = "absent" THEN Returns(b, FALSE)
        ELSE IF packed.raised \/ b.writer = "closed" \/ b.backend = "closed"
        THEN Returns(b, FALSE)
        ELSE Returns([b EXCEPT !.written = Append(@, packed.msg)], TRUE)

\* what the server answers to a connection: opens: open_connection
\* returns; version: the bytes reader.read(12) returns
Server(opens, version) == [opens |-> opens, version |-> version]

\* "RFB 003.008\n"
ProtocolVersion == <<82, 70, 66, 32, 48, 48, 51, 46, 48, 48, 56, 10>>

\* a server that follows the protocol, and no server
ServerOf(ok) == IF ok THEN Server(TRUE, ProtocolVersion) ELSE Server(FALSE, <<>>)

\* bytes.decode(): the byte strings of the model hold ASCII bytes, which
\* decode, or the byte 0xff, which is in no UTF-8 sequence
decodes(bytes) == \A i \in DOMAIN bytes : bytes[i] < 128

\* vnc_client.py:49-69: hello is what the attempt did on the stream; the
\* version is decoded for the log and nothing in it is looked at; reader
\* and writer are kept only when the attempt got to its end
connect_rfb(b, server) ==
    IF ~server.opens THEN Returns([b EXCEPT !.hello = <<"open">>], FALSE)
    ELSE IF ~decodes(server.version)
    THEN Returns([b EXCEPT !.hello = <<"open", "read">>], FALSE)
    ELSE Returns([b EXCEPT !.hello = <<"open", "read", "write">>,
                           !.writer = "open", !.backend = "up"], TRUE)

\* vnc_client.py:25-47: connect through vncdotool (api_ok: api.connect
\* returns), or through the raw socket when the import fails
Client_connect_to(b, server, api_ok) ==
    IF b.vncdotool
    THEN Returns([b EXCEPT !.vnc_api = IF api_ok THEN TRUE ELSE @], api_ok)
    ELSE connect_rfb(b, server)

\* ok: the attempt succeeds
Client_connect(b, ok) == Client_connect_to(b, ServerOf(ok), ok)

\* app.py:78-95
Bridge_connect_to(b, server, api_ok) ==
    IF b.client # NoClient
    THEN LET r == Client_connect_to(b, server, api_ok)
         IN  Returns([r.b EXCEPT !.connected = r.ret], r.ret)
    ELSE Returns([b EXCEPT !.connected = TRUE], TRUE)

Bridge_connect(b, ok) == Bridge_connect_to(b, ServerOf(ok), ok).b

\* vnc_client.py:221-232: the library connection is dropped, the writer of
\* the raw socket is closed and stays an attribute of the client
Client_disconnect(b) ==
    [b EXCEPT !.vnc_api = FALSE,
              !.writer = IF @ = "absent" THEN @ ELSE "closed"]

\* app.py:97-102: the bridge lets go of its client
Bridge_disconnect(b) ==
    [(IF b.client # NoClient THEN Client_disconnect(b) ELSE b)
        EXCEPT !.connected = FALSE, !.client = NoClient]

\* `if not self.connected: await self.connect()`, the first statement of
\* every action of the bridge
Connected(b, ok) == IF b.connected THEN b ELSE Bridge_connect(b, ok)

\* vnc_client.py:125-140; api_ok: the calls of the library do not raise
Client_click(b, x, y, button, api_ok) ==
    IF b.vnc_api
    THEN IF api_ok
         THEN Returns([b EXCEPT !.api = @ \o <<<<"mouseMove", x, y>>,
                                                <<"mousePress", button>>,
                                                <<"mouseRelease", button>>>>],
                      TRUE)
         ELSE Returns(b, FALSE)
    ELSE send_pointer_event(b, x, y, button)

\* app.py:162: button_map
button_map == [left |-> 1, middle |-> 2, right |-> 3]

\* app.py:163: button_map.get(button, 1)
button_num(button) ==
    IF button \in DOMAIN button_map THEN button_map[button] ELSE 1

\* app.py:154-170
Bridge_click(b, x, y, button, ok, api_ok) ==
    LET c == Connected(b, ok)
    IN  IF c.client # NoClient
        THEN Client_click([c EXCEPT !.calls =
                                Append(@, <<"click", x, y, button_num(button)>>)],
                          x, y, button_num(button), api_ok)
        ELSE Returns(c, TRUE)

RECURSIVE TypeChars(_, _)
\* vnc_client.py:169-172: a key-down and a key-up event for every character;
\* what _send_key_event returns is dropped
TypeChars(b, text) ==
    IF text = <<>> THEN b
    ELSE TypeChars(send_key_event(send_key_event(b, Head(text), TRUE).b,
                                  Head(text), FALSE).b,
                   Tail(text))

\* vnc_client.py:158-173; a text is the sequence of its code points
Client_type_text(b, text, api_ok) ==
    IF b.vnc_api
    THEN IF api_ok
         THEN Returns([b EXCEPT !.api = Append(@, <<"type", text>>)], TRUE)
         ELSE Returns(b, FALSE)
    ELSE Returns(TypeChars(b, text), TRUE)

\* app.py:172-185
Bridge_type_text(b, text, ok, api_ok) ==
    LET c == Connected(b, ok)
    IN  IF c.client # NoClient
        THEN Client_type_text([c EXCEPT !.calls =
                                    Append(@, <<"type_text", text>>)],
                              text, api_ok)
        ELSE Returns(c, TRUE)

\* vnc_client.py:202-212
key_map ==
    [enter |-> 65293, tab |-> 65289, escape |-> 65307, backspace |-> 65288,
     delete |-> 65535, up |-> 65362, down |-> 65364, left |-> 65361,
     right |-> 65363]

\* the key names of the model
KeyNames == {"enter", "Enter", "ctrl+c", "f13"}

\* str.lower() on the key names of the model
lower(key) ==
    CASE key = "Enter" -> "enter"
      [] OTHER -> key

\* vnc_client.py:191-219
Client_key_press(b, key, api_ok) ==
    IF b.vnc_api
    THEN IF api_ok
         THEN Returns([b EXCEPT !.api = Append(@, <<"keyPress", key>>)], TRUE)
         ELSE Returns(b, FALSE)
    ELSE IF lower(key) \in DOMAIN key_map
         THEN LET keysym == key_map[lower(key)]
              IN  Returns(send_key_event(send_key_event(b, keysym, TRUE).b,
                                         keysym, FALSE).b,
                          TRUE)
         ELSE Returns(b, FALSE)

\* app.py:187-200
Bridge_key_combination(b, keys, ok, api_ok) ==
    LET c == Connected(b, ok)
    IN  IF c.client # NoClient
        THEN Client_key_press([c EXCEPT !.calls =
                                    Append(@, <<"key_press", keys>>)],
                              keys, api_ok)
        ELSE Returns(c, TRUE)

NoImage == "None"

\* app.py:104-136: the capture of the client, or the mock image when the
\* client has none (captured: the client's capture gives an image); with
\* S3_BUCKET and SESSION_ID set, line 127 reads the name `buffer`, which
\* screenshot() does not define: NameError, caught at line 134
Bridge_screenshot(b, ok, captured) ==
    LET c == Connected(b, ok)
        screenshot_base64 ==
            IF c.client # NoClient /\ captured THEN "capture" ELSE "mock"
    IN  Returns(c, IF c.s3 THEN NoImage ELSE screenshot_base64)

----------------------------------------------------------------------------
(* The action endpoint: websocket_endpoint (app.py:336-412), one streaming *)
(* session on the global vnc_bridge.  A step is the code between two       *)
(* awaits of the handler or of its stream_screenshots task.                *)
(*   stream.wpc     where the handler is                                   *)
(*   stream.task    where the stream_screenshots task is                   *)
(*   stream.client  "connected" or "gone": the client's side               *)
(*   stream.inbox   the messages the client has sent, stream.read of them  *)
(*                  taken by receive_json                                  *)
(*   stream.outbox  the messages sent to the client                        *)
(*   stream.success what the bridge returned for the request in hand       *)
(*   stream.shots   frames the task has captured (history)                 *)

\* websocket.receive_json() gives a dictionary; data.get(key, default) of
\* lines 378-399 reads the default for a key the message does not carry
Request(type, x, y, button, text, keys) ==
    [type |-> type, x |-> x, y |-> y, button |-> button, text |-> text,
     keys |-> keys]

ClickRequest(x, y, button) == Request("click", x, y, button, <<>>, "")

TypeRequest(text) == Request("type", 0, 0, "left", text, "")

KeyCombinationRequest(keys) == Request("key_combination", 0, 0, "left", <<>>, keys)

\* a message of a type the handler has no branch for, and a frame that is
\* no JSON text
OtherRequest == Request("ping", 0, 0, "left", <<>>, "")

Malformed == Request("malformed", 0, 0, "left", <<>>, "")

Requests ==
    {ClickRequest(500, 425, "left"), ClickRequest(500, 425, "back"),
     TypeRequest(<<104, 105>>), KeyCombinationRequest("f13"), OtherRequest,
     Malformed}

ActionTypes == {"click", "type", "key_combination"}

\* lines 346-350 and 361-365
ScreenshotFrame ==
    [type |-> "screenshot", data |-> "base64", timestamp |-> "isoformat"]

\* lines 384-388, 392-396, 400-404
ActionResult(action, success) ==
    [type |-> "action_result", action |-> action, success |-> success]

StreamNew ==
    [wpc |-> "startup", task |-> "none", client |-> "connected",
     inbox |-> <<>>, read |-> 0, outbox |-> <<>>, success |-> FALSE,
     shots |-> 0]

\* no HTTP request yet
RestNew ==
    [calls |-> 0, started |-> FALSE, endpoint |-> "", x |-> 0, y |-> 0,
     button |-> "", text |-> <<>>, keys |-> "", status |-> 0]

\* no call of _send_pointer_event or _send_key_event on its own
EventNew ==
    [kind |-> "", button_mask |-> 0, x |-> 0, y |-> 0, key |-> 0,
     down |-> FALSE, called |-> FALSE, ret |-> FALSE]

\* no method of the bridge called yet
CallNew ==
    [n |-> 0, method |-> "", x |-> 0, y |-> 0, button |-> "", text |-> <<>>,
     keys |-> "", opens |-> FALSE, version |-> <<>>, ret |-> FALSE,
     image |-> NoImage, variant |-> ""]

EndpointIdle ==
    /\ bridge = BridgeNew(NoClient, FALSE, FALSE)
    /\ stream = StreamNew
    /\ rest = RestNew
    /\ raw_event = EventNew
    /\ call = CallNew

\* the deployments: without the VNCClient module, or with it and with or
\* without the vncdotool library; with or without the S3 settings
Deployments ==
    {BridgeNew(NoClient, FALSE, s3) : s3 \in BOOLEAN}
        \cup {BridgeNew("VNCClient", vncdotool, s3) :
                  vncdotool \in BOOLEAN, s3 \in BOOLEAN}

EndpointInit ==
    /\ bridge \in Deployments
    /\ stream = StreamNew
    /\ rest = RestNew
    /\ raw_event = EventNew
    /\ call = CallNew

\* app.py:225-229: lifespan connects the bridge before the first request
Startup(ok) ==
    /\ stream.wpc = "startup"
    /\ bridge' = Bridge_connect(bridge, ok)
    /\ stream' = [stream EXCEPT !.wpc = "accept"]
    /\ UNCHANGED <<rest, otherVars>>

\* line 339: await websocket.accept()
WsAccept ==
    /\ stream.wpc = "accept"
    /\ stream' = [stream EXCEPT !.wpc = "screenshot"]
    /\ UNCHANGED <<bridge, rest, otherVars>>

\* lines 344-345, 353-376: the initial screenshot; without one the task is
\* started and the handler waits for the first message
WsFirstScreenshot(ok, captured) ==
    LET r == Bridge_screenshot(bridge, ok, captured)
    IN  /\ stream.wpc = "screenshot"
        /\ bridge' = r.b
        /\ stream' = IF r.ret # NoImage
                     THEN [stream EXCEPT !.wpc = "send_first"]
                     ELSE [stream EXCEPT !.wpc = "receive", !.task = "capture"]
        /\ UNCHANGED <<rest, otherVars>>

\* lines 346-350, 353-376: the initial screenshot is sent, the task is
\* started; with the client gone the send raises, and the finally block
\* reads screenshot_task before line 353 has bound it
WsFirstSend(send_raises) ==
    /\ stream.wpc = "send_first"
    /\ send_raises => stream.client = "gone"
    /\ stream' = IF send_raises
                 THEN [stream EXCEPT !.wpc = "raised"]
                 ELSE [stream EXCEPT
                          !.outbox = IF stream.client = "connected"
                                     THEN Append(@, ScreenshotFrame)
                                     ELSE @,
                          !.wpc = "receive", !.task = "capture"]
    /\ UNCHANGED <<bridge, rest, otherVars>>

\* line 359: screenshot = await vnc_bridge.screenshot()
TaskScreenshot(ok, captured) ==
    LET r == Bridge_screenshot(bridge, ok, captured)
    IN  /\ stream.task = "capture"
        /\ stream.shots < MaxShots
        /\ bridge' = r.b
        /\ stream' = [stream EXCEPT
                         !.shots = @ + 1,
                         !.task = IF r.ret = NoImage THEN "sleep"
                                  ELSE "send"]
        /\ UNCHANGED <<rest, otherVars>>

\* lines 361-369: the frame is sent; a failure of the send ends the task
TaskSend(send_raises) ==
    /\ stream.task = "send"
    /\ send_raises => stream.client = "gone"
    /\ stream' = IF send_raises
                 THEN [stream EXCEPT !.task = "ended"]
                 ELSE [stream EXCEPT
                          !.outbox = IF stream.client = "connected"
                                     THEN Append(@, ScreenshotFrame)
                                     ELSE @,
                          !.task = "sleep"]
    /\ UNCHANGED <<bridge, rest, otherVars>>

\* line 366: await asyncio.sleep(1/30)
TaskSleep ==
    /\ stream.task = "sleep"
    /\ stream' = [stream EXCEPT !.task = "capture"]
    /\ UNCHANGED <<bridge, rest, otherVars>>

\* the message receive_json returns next
NextRequest == stream.inbox[stream.read + 1]

Receiving(type) ==
    /\ stream.wpc = "receive"
    /\ stream.read < Len(stream.inbox)
    /\ NextRequest.type = type

\* the bridge has acted on the request: the result is sent next
Acted(r) ==
    /\ bridge' = r.b
    /\ stream' = [stream EXCEPT !.read = @ + 1, !.success = r.ret,
                                !.wpc = "send_result"]
    /\ UNCHANGED <<rest, otherVars>>

\* lines 376-383
WsClick(ok, api_ok) ==
    /\ Receiving("click")
    /\ Acted(Bridge_click(bridge, NextRequest.x, NextRequest.y,
                          NextRequest.button, ok, api_ok))

\* lines 376, 390-391
WsType(ok, api_ok) ==
    /\ Receiving("type")
    /\ Acted(Bridge_type_text(bridge, NextRequest.text, ok, api_ok))

\* lines 376, 398-399
WsKeyCombination(ok, api_ok) ==
    /\ Receiving("key_combination")
    /\ Acted(Bridge_key_combination(bridge, NextRequest.keys, ok, api_ok))

\* lines 375-398: a message of another type takes no branch
WsOther ==
    /\ stream.wpc = "receive"
    /\ stream.read < Len(stream.inbox)
    /\ NextRequest.type \notin ActionTypes \cup {"malformed"}
    /\ stream' = [stream EXCEPT !.read = @ + 1]
    /\ UNCHANGED <<bridge, rest, otherVars>>

\* the task after screenshot_task.cancel() of line 412
Cancelled(task) == IF task = "ended" THEN task ELSE "cancelled"

\* lines 376, 408-412: receive_json raises on a frame that is no JSON text;
\* the error is logged and the task is cancelled
WsReceiveRaises ==
    /\ Receiving("malformed")
    /\ stream' = [stream EXCEPT !.read = @ + 1, !.wpc = "done",
                                !.task = Cancelled(@)]
    /\ UNCHANGED <<bridge, rest, otherVars>>

\* lines 376, 406-407, 410-412: WebSocketDisconnect, after the messages sent
\* before it
WsDisconnect ==
    /\ stream.wpc = "receive"
    /\ stream.read = Len(stream.inbox)
    /\ stream.client = "gone"
    /\ stream' = [stream EXCEPT !.wpc = "done", !.task = Cancelled(@)]
    /\ UNCHANGED <<bridge, rest, otherVars>>

\* an action_result that names the click whatever the request was
ResultOf_click(request, success) == ActionResult("click", success)

\* the action_result of the request in hand
ResultOf(request, success) == ActionResult(request.type, success)

\* lines 384-388, 392-396, 400-404: the action_result is sent; with the
\* client gone the send raises (lines 406-412) or the message is dropped
WsSendResult(send_raises) ==
    /\ stream.wpc = "send_result"
    /\ send_raises => stream.client = "gone"
    /\ stream' = IF send_raises
                 THEN [stream EXCEPT !.wpc = "done", !.task = Cancelled(@)]
                 ELSE [stream EXCEPT
                          !.outbox = IF stream.client = "connected"
                                     THEN Append(@, ResultOf(
                                            stream.inbox[stream.read],
                                            stream.success))
                                     ELSE @,
                          !.wpc = "receive"]
    /\ UNCHANGED <<bridge, rest, otherVars>>

\* the client sends a message
StreamClientSends(request) ==
    /\ stream.wpc \notin {"startup", "accept", "done", "raised"}
    /\ stream.client = "connected"
    /\ Len(stream.inbox) < MaxRequests
    /\ stream' = [stream EXCEPT !.inbox = Append(@, request)]
    /\ UNCHANGED <<bridge, rest, otherVars>>

\* the client closes its connection
StreamClientDisconnects ==
    /\ stream.wpc \notin {"startup", "accept", "done", "raised"}
    /\ stream.client = "connected"
    /\ stream' = [stream EXCEPT !.client = "gone"]
    /\ UNCHANGED <<bridge, rest, otherVars>>

\* the backend closes the stream of the fallback client
StreamBackendCloses ==
    /\ bridge.writer = "open"
    /\ bridge.backend = "up"
    /\ bridge' = [bridge EXCEPT !.backend = "closed"]
    /\ UNCHANGED <<stream, rest, otherVars>>

----------------------------------------------------------------------------
(* The HTTP handlers of the bridge (app.py:254-333): every request is one  *)
(* call of a method of the global vnc_bridge, answered 200 when the method *)
(* returns True and 500 when it returns False.                             *)

\* the arguments of the model
XCoordinates == {-1, 500}

YCoordinates == {-1, 425}

Buttons == {"left", "middle", "right", "back"}

Texts == {<<>>, <<104, 105>>}

\* the response to a request that called `method`
Answered(endpoint, x, y, button, text, keys, r) ==
    /\ rest.started
    /\ rest.calls < MaxRestCalls
    /\ bridge' = r.b
    /\ rest' = [rest EXCEPT !.calls = @ + 1, !.endpoint = endpoint,
                            !.x = x, !.y = y, !.button = button,
                            !.text = text, !.keys = keys,
                            !.status = IF r.ret THEN 200 ELSE 500]
    /\ UNCHANGED <<stream, otherVars>>

\* app.py:225-229: lifespan connects the bridge before the first request
RestStartup(ok) ==
    /\ ~rest.started
    /\ bridge' = Bridge_connect(bridge, ok)
    /\ rest' = [rest EXCEPT !.started = TRUE]
    /\ UNCHANGED <<stream, otherVars>>

\* app.py:270-287; the screenshot taken after a click that succeeded
\* connects the bridge when it is not connected
handle_click(x, y, button, ok, api_ok) ==
    LET r == Bridge_click(bridge, x, y, button, ok, api_ok)
    IN  Answered("click", x, y, button, <<>>, "",
                 IF r.ret THEN Returns(Connected(r.b, ok), TRUE) ELSE r)

\* app.py:290-302
handle_type(text, ok, api_ok) ==
    Answered("type", 0, 0, "", text, "",
             Bridge_type_text(bridge, text, ok, api_ok))

\* app.py:305-317
handle_key_combination(keys, ok, api_ok) ==
    Answered("key_combination", 0, 0, "", <<>>, keys,
             Bridge_key_combination(bridge, keys, ok, api_ok))

----------------------------------------------------------------------------
(* The raw events of the fallback client, one call of _send_pointer_event  *)
(* or of _send_key_event (vnc_client.py:142-189) on a client of its own:   *)
(* raw_event holds the arguments of the call and what the call returned.   *)

ButtonMasks == {-1, 0, 1, 4, 128, 255, 256}

EventCoordinates == {-1, 0, 1, 255, 256, 500, 65535, 65536}

\* key codes; the largest is 2^31 - 1
KeyCodes == {-1, 0, 97, 255, 256, 65293, 16777216, 2147483647}

\* a fallback client that has connected (it has a writer) or has not
EventClients ==
    {[BridgeNew("VNCClient", FALSE, FALSE) EXCEPT !.writer = writer,
                                                  !.connected = writer = "open"] :
        writer \in {"absent", "open"}}

\* any arguments of a call not made yet
EventInit ==
    /\ bridge \in EventClients
    /\ stream = StreamNew
    /\ rest = RestNew
    /\ call = CallNew
    /\ raw_event \in
          {[EventNew EXCEPT !.kind = "pointer", !.button_mask = mask,
                            !.x = x, !.y = y] :
              mask \in ButtonMasks, x \in EventCoordinates,
              y \in EventCoordinates}
          \cup {[EventNew EXCEPT !.kind = "key", !.key = key, !.down = down] :
                   key \in KeyCodes, down \in BOOLEAN}

\* the call has returned
Sent(r) ==
    /\ ~raw_event.called
    /\ bridge' = r.b
    /\ raw_event' = [raw_event EXCEPT !.called = TRUE, !.ret = r.ret]
    /\ UNCHANGED <<stream, rest, call, nonEndpointVars>>

\* vnc_client.py:142-156
PointerEventSent ==
    /\ raw_event.kind = "pointer"
    /\ Sent(send_pointer_event(bridge, raw_event.x, raw_event.y,
                               raw_event.button_mask))

\* vnc_client.py:175-189
KeyEventSent ==
    /\ raw_event.kind = "key"
    /\ Sent(send_key_event(bridge, raw_event.key, raw_event.down))

----------------------------------------------------------------------------
(* The methods of one VNCBridge object (app.py:64-217), called one after   *)
(* the other in any order: connect, disconnect, screenshot, click,         *)
(* type_text, key_combination, move_mouse.  call holds the last call, its  *)
(* arguments, what it returned and the implementation that served it.      *)

\* what a server may answer: no connection; the version line of the
\* protocol; nothing (the server closes); a part of the line; the line of
\* another protocol ("HTTP/1.1 400"); a byte that does not decode
Servers ==
    {Server(FALSE, <<>>),
     Server(TRUE, ProtocolVersion),
     Server(TRUE, <<>>),
     Server(TRUE, <<82, 70, 66, 32, 48, 48, 51>>),
     Server(TRUE, <<72, 84, 84, 80, 47, 49, 46, 49, 32, 52, 48, 48>>),
     Server(TRUE, <<255>>)}

\* the implementation an action of the bridge runs on: the mock branch when
\* the bridge has no client (`if self.client and hasattr(...)`), else the
\* library or the raw socket of the client (`if self.vnc_api`)
Variant(b) ==
    IF b.client = NoClient THEN "mock"
    ELSE IF b.vnc_api THEN "library"
    ELSE "fallback"

\* app.py:202-217: VNCClient has no attribute move_mouse, so the test of
\* line 208 fails for every client and the mock branch answers
Bridge_move_mouse(b, x, y, ok) == Returns(Connected(b, ok), TRUE)

\* the call has returned r
Called(r, method) ==
    /\ call.n < MaxMethodCalls
    /\ bridge' = r.b
    /\ call' = [method EXCEPT !.n = call.n + 1, !.ret = r.ret]
    /\ UNCHANGED <<stream, rest, raw_event, nonEndpointVars>>

VNCBridge_connect(server, api_ok) ==
    Called(Bridge_connect_to(bridge, server, api_ok),
           [CallNew EXCEPT !.method = "connect", !.opens = server.opens,
                           !.version = server.version,
                           !.variant = Variant(bridge)])

\* wait_closed() raises when the connection was lost with an error, and
\* disconnect() is left before line 102
VNCBridge_disconnect(close_raises) ==
    /\ close_raises => (bridge.client # NoClient /\ bridge.writer # "absent"
                          /\ bridge.backend = "closed")
    /\ Called(Returns(IF close_raises
                      THEN [Client_disconnect(bridge) EXCEPT !.connected = FALSE]
                      ELSE Bridge_disconnect(bridge),
                      ~close_raises),
              [CallNew EXCEPT !.method = "disconnect",
                              !.variant = Variant(bridge)])

VNCBridge_screenshot(ok, captured) ==
    LET r == Bridge_screenshot(bridge, ok, captured)
    IN  Called(Returns(r.b, r.ret # NoImage),
               [CallNew EXCEPT !.method = "screenshot", !.image = r.ret,
                               !.variant = IF captured THEN Variant(r.b)
                                           ELSE "mock"])

VNCBridge_click(x, y, button, ok, api_ok) ==
    Called(Bridge_click(bridge, x, y, button, ok, api_ok),
           [CallNew EXCEPT !.method = "click", !.x = x, !.y = y,
                           !.button = button,
                           !.variant = Variant(Connected(bridge, ok))])

VNCBridge_type_text(text, ok, api_ok) ==
    Called(Bridge_type_text(bridge, text, ok, api_ok),
           [CallNew EXCEPT !.method = "type_text", !.text = text,
                           !.variant = Variant(Connected(bridge, ok))])

VNCBridge_key_combination(keys, ok, api_ok) ==
    Called(Bridge_key_combination(bridge, keys, ok, api_ok),
           [CallNew EXCEPT !.method = "key_combination", !.keys = keys,
                           !.variant = Variant(Connected(bridge, ok))])

VNCBridge_move_mouse(x, y, ok) ==
    Called(Bridge_move_mouse(bridge, x, y, ok),
           [CallNew EXCEPT !.method = "move_mouse", !.x = x, !.y = y,
                           !.variant = "mock"])

----------------------------------------------------------------------------
(* The tools of the agent: ComputerUseAgent.vnc_controller and             *)
(* keyboard_input (computer_use_agent.py:167-257).  A tool is a function   *)
(* of its arguments; agent holds the arguments of a call and what the call *)
(* returned.  A string is the sequence of its characters.                  *)

\* the words the strings of the model are made of
Ctrl == <<"c", "t", "r", "l">>

Shift == <<"s", "h", "i", "f", "t">>

AltCapital == <<"A", "l", "t">>

Win == <<"w", "i", "n">>

Words == {Ctrl, Shift, AltCapital, Win, <<"c">>, <<"+">>}

\* the strings of up to n words
RECURSIVE StringsOf(_)
StringsOf(n) ==
    IF n = 0 THEN {<<>>}
    ELSE LET shorter == StringsOf(n - 1)
         IN  shorter \cup {s \o w : s \in shorter, w \in Words}

\* key_combination = None
NoCombination == <<"None">>

KeyCombinations == StringsOf(MaxWords) \cup {NoCombination}

\* str.lower() on the characters of the model
LowerCase(s) == [i \in DOMAIN s |-> IF s[i] = "A" THEN "a" ELSE s[i]]

\* str.split(sep): the parts between the separators, empty parts included
RECURSIVE split(_, _)
split(s, sep) ==
    IF \A i \in DOMAIN s : s[i] # sep THEN <<s>>
    ELSE LET i == CHOOSE j \in DOMAIN s :
                     s[j] = sep /\ \A k \in 1..(j - 1) : s[k] # sep
         IN  <<SubSeq(s, 1, i - 1)>> \o split(SubSeq(s, i + 1, Len(s)), sep)

\* line 238
valid_modifiers ==
    {Ctrl, <<"a", "l", "t">>, Shift, <<"c", "m", "d">>, <<"m", "e", "t", "a">>}

\* the defaults of the parameters: text = "", key_combination = None,
\* x = 0, y = 0, button = "left"
AgentNew ==
    [tool |-> "", text |-> <<>>, key_combination |-> NoCombination,
     action |-> "click", x |-> 0, y |-> 0, button |-> "left",
     status |-> "", error |-> ""]

AgentIdle == agent = AgentNew

\* `not key_combination`: None or the empty string
NotGiven(s) == s = NoCombination \/ s = <<>>

\* lines 223-257: the status and the error of the result
keyboard_input_result(text, key_combination) ==
    IF text = <<>> /\ NotGiven(key_combination)
    THEN [status |-> "failed", error |-> "Either text or key_combination must be provided"]
    ELSE IF NotGiven(key_combination)
    THEN [status |-> "executed", error |-> ""]
    ELSE LET parts == split(LowerCase(key_combination), "+")
             modifiers == SubSeq(parts, 1, Len(parts) - 1)
         IN  IF Len(parts) < 2
             THEN [status |-> "failed", error |-> "Invalid key combination format"]
             ELSE IF \E i \in DOMAIN modifiers : modifiers[i] \notin valid_modifiers
             THEN [status |-> "failed", error |-> "Invalid modifier"]
             ELSE [status |-> "executed", error |-> ""]

\* lines 187-188
valid_actions == {"click", "double_click", "right_click", "drag"}

valid_buttons == {"left", "right", "middle"}

\* the arguments of the model for vnc_controller
Actions == valid_actions \cup {"invalid_action", "move", ""}

ToolCoordinates == {-1, 0, 100, 200}

ToolButtons == valid_buttons \cup {"back", "Left", ""}

\* a controller that takes any button
vnc_controller_result_any_button(action, x, y, button) ==
    IF action \notin valid_actions \/ x < 0 \/ y < 0
    THEN [status |-> "failed", error |-> "Invalid"]
    ELSE [status |-> "executed", error |-> ""]

\* lines 190-209: the status and the error of the result
vnc_controller_result(action, x, y, button) ==
    IF action \notin valid_actions
    THEN [status |-> "failed", error |-> "Invalid action"]
    ELSE IF button \notin valid_buttons
    THEN [status |-> "failed", error |-> "Invalid button"]
    ELSE IF x < 0 \/ y < 0
    THEN [status |-> "failed", error |-> "Coordinates must be non-negative"]
    ELSE [status |-> "executed", error |-> ""]

\* any arguments of a call not made yet
AgentInit ==
    agent \in {[AgentNew EXCEPT !.text = text,
                                !.key_combination = key_combination] :
                   text \in {<<>>, <<"c">>},
                   key_combination \in KeyCombinations}
              \cup {[AgentNew EXCEPT !.action = action, !.x = x, !.y = y,
                                     !.button = button] :
                       action \in Actions, x \in ToolCoordinates,
                       y \in ToolCoordinates, button \in ToolButtons}

\* the call of the tool
keyboard_input ==
    LET r == keyboard_input_result(agent.text, agent.key_combination)
    IN  /\ agent.tool = ""
        /\ agent' = [agent EXCEPT !.tool = "keyboard_input",
                                  !.status = r.status, !.error = r.error]
        /\ UNCHANGED nonAgentVars

\* the call of the tool; the result is a dictionary and nothing else is
\* done: the tool holds no connection to a desktop
vnc_controller ==
    LET r == vnc_controller_result(agent.action, agent.x, agent.y, agent.button)
    IN  /\ agent.tool = ""
        /\ agent' = [agent EXCEPT !.tool = "vnc_controller",
                                  !.status = r.status, !.error = r.error]
        /\ UNCHANGED nonAgentVars

----------------------------------------------------------------------------
(* Specifications *)

\* one breaker, any threshold and timeout, called by one caller at a time
InitCB ==
    /\ now = 0
    /\ callers = {1}
    /\ failure_threshold \in 1..MaxThreshold
    /\ recovery_timeout \in 0..MaxTimeout
    /\ CBInit
    /\ RetryIdle
    /\ CacheIdle
    /\ BedrockIdle
    /\ ProxyIdle
    /\ GatewayIdle
    /\ EndpointIdle
    /\ AgentIdle

NextCB ==
    \/ CBTick
    \/ CBCallRejected
    \/ \E d \in 0..1 : CBCallSucceeds(d)
    \/ \E d \in 0..1 : CBCallFails(d)

SpecCB == InitCB /\ [][NextCB]_vars

\* one breaker shared by concurrent callers
InitCBThreads ==
    /\ now = 0
    /\ callers = Threads
    /\ failure_threshold \in 1..MaxThreshold
    /\ recovery_timeout \in 0..MaxTimeout
    /\ CBInit
    /\ RetryIdle
    /\ CacheIdle
    /\ BedrockIdle
    /\ ProxyIdle
    /\ GatewayIdle
    /\ EndpointIdle
    /\ AgentIdle

NextCBThreads ==
    \/ CBTick
    \/ \E t \in callers : CBLine191(t)
    \/ \E t \in callers : CBLine192(t)
    \/ \E t \in callers : CBLine193(t)
    \/ \E t \in callers : CBFuncReturns(t)
    \/ \E t \in callers : CBFuncRaises(t)
    \/ \E t \in callers : CBLine199(t)
    \/ \E t \in callers : CBLine200(t)
    \/ \E t \in callers : CBLine201(t)
    \/ \E t \in callers : CBLine205Read(t)
    \/ \E t \in callers : CBLine205Write(t)
    \/ \E t \in callers : CBLine206(t)
    \/ \E t \in callers : CBLine208(t)
    \/ \E t \in callers : CBLine209(t)

SpecCBThreads == InitCBThreads /\ [][NextCBThreads]_vars

\* one decorated operation called once, under any RetryConfig
InitRetry ==
    /\ now = 0
    /\ callers = {1}
    /\ CBIdle
    /\ RetryInit
    /\ CacheIdle
    /\ BedrockIdle
    /\ ProxyIdle
    /\ GatewayIdle
    /\ EndpointIdle
    /\ AgentIdle

NextRetry ==
    \/ RetryCall
    \/ RetryCallNoAttempt
    \/ RetryFuncReturns
    \/ \E exc \in Exceptions : RetryFuncRaisesLast(exc)
    \/ \E exc \in Exceptions : RetryFuncRaisesFatal(exc)
    \/ \E exc \in Exceptions, r \in 0..(JitterSteps - 1) :
          RetryFuncRaisesRetryable(exc, r)
    \/ RetryWakes
    \/ ClientCloses

SpecRetry == InitRetry /\ [][NextRetry]_vars

\* calculate_backoff applied to any attempts, under any RetryConfig
InitBackoff ==
    /\ now = 0
    /\ callers = {1}
    /\ CBIdle
    /\ RetryInit
    /\ config.max_attempts = MaxAttempts
    /\ CacheIdle
    /\ BedrockIdle
    /\ ProxyIdle
    /\ GatewayIdle
    /\ EndpointIdle
    /\ AgentIdle

NextBackoff ==
    \E n \in 1..MaxBackoffAttempt, r \in 0..(JitterSteps - 1) : BackoffCall(n, r)

SpecBackoff == InitBackoff /\ [][NextBackoff]_vars

\* the bridge's registry cache, resolved by any sessions while time passes
\* and the table changes
InitCache ==
    /\ now = 0
    /\ callers = {1}
    /\ CBIdle
    /\ RetryIdle
    /\ CacheInit
    /\ BedrockIdle
    /\ ProxyIdle
    /\ GatewayIdle
    /\ EndpointIdle
    /\ AgentIdle

NextCache ==
    \/ CacheTick
    \/ \E s \in SessionIds : ResolveHit(s)
    \/ \E s \in SessionIds : ResolveLookupFound(s)
    \/ \E s \in SessionIds : ResolveLookupNotFound(s)
    \/ \E s \in SessionIds : ResolveLookupRaises(s)
    \/ \E s \in SessionIds, item \in Items \cup {NoItem} : TableChanges(s, item)

SpecCache == InitCache /\ [][NextCache]_vars

\* one BedrockCache, its methods called in any order while time passes
InitBedrock ==
    /\ now = 0
    /\ callers = {1}
    /\ CBIdle
    /\ RetryIdle
    /\ CacheIdle
    /\ BedrockInit
    /\ ProxyIdle
    /\ GatewayIdle
    /\ EndpointIdle
    /\ AgentIdle

NextBedrock ==
    \/ BedrockTick
    \/ \E k \in CacheKeys : BedrockGetMemoryHit(k)
    \/ \E k \in CacheKeys : BedrockGetTableHit(k)
    \/ \E k \in CacheKeys : BedrockGetMiss(k)
    \/ \E k \in CacheKeys : BedrockGetRaises(k)
    \/ \E k \in CacheKeys, r \in Responses, conf \in Confidences :
          BedrockPutSkipped(k, r, conf)
    \/ \E k \in CacheKeys, r \in Responses, conf \in Confidences :
          BedrockPut(k, r, conf)
    \/ \E k \in CacheKeys, r \in Responses, conf \in Confidences :
          BedrockPutRaises(k, r, conf)
    \/ \E pattern \in Patterns : invalidate_pattern(pattern)

SpecBedrock == InitBedrock /\ [][NextBedrock]_vars

\* one proxied connection, for any session id, any item of session abc in
\* the table and none of session zzz, and any backend, with a client and a
\* backend that send and close as they like
InitProxy ==
    /\ now = 0
    /\ callers = {1}
    /\ CBIdle
    /\ RetryIdle
    /\ BedrockIdle
    /\ CacheInit
    /\ cache_ttl = 1
    /\ sessions_table["zzz"] = NoItem
    /\ ProxyInit
    /\ proxy["c2"] = ProxyNew("abc", 0)
    /\ GatewayIdle
    /\ EndpointIdle
    /\ AgentIdle

NextProxy ==
    \/ ProxyStep("c1")
    \/ ProxyEnvironment("c1")

SpecProxy == InitProxy /\ [][NextProxy]_vars

\* the event loop runs every coroutine that can take a step; nothing makes
\* the client or the backend send or close
SpecProxyLive == SpecProxy /\ WF_vars(ProxyStep("c1"))

\* two proxied connections on one event loop.  Connection c1 is opened for
\* any session id, against a backend that accepts or refuses the connect;
\* its client and its backend send no frames.  Connection c2 is opened for
\* session abc, which has a task_ip in the table; its client sends bytes and
\* text frames, its backend bytes frames, and both close as they like
InitProxy2 ==
    /\ now = 0
    /\ callers = {1}
    /\ CBIdle
    /\ RetryIdle
    /\ BedrockIdle
    /\ CacheInit
    /\ cache_ttl = 1
    /\ sessions_table["zzz"] = NoItem
    /\ HasTaskIp(sessions_table["abc"])
    /\ ProxyInit
    /\ proxy["c1"].backend_fails <= 1
    /\ proxy["c2"] = ProxyNew("abc", 0)
    /\ GatewayIdle
    /\ EndpointIdle
    /\ AgentIdle

NextProxy2 ==
    \/ \E c \in Conns : LoopStep(c)
    \/ ClientDisconnects("c1")
    \/ BackendCloses("c1")
    \/ \E frame \in {f \in Frames : f.body = 1} : ClientSends("c2", frame)
    \/ ClientDisconnects("c2")
    \/ \E frame \in {f \in Frames : f.kind = "bytes" /\ f.body = 2} :
          BackendSends("c2", frame)
    \/ BackendCloses("c2")

SpecProxy2 == InitProxy2 /\ [][NextProxy2]_vars

\* $connect and $disconnect events in any order, for any item of session
\* abc in the sessions table and none of session zzz
InitGateway ==
    /\ now = 0
    /\ callers = {1}
    /\ CBIdle
    /\ RetryIdle
    /\ BedrockIdle
    /\ ProxyIdle
    /\ CacheInit
    /\ cache_ttl = 1
    /\ sessions_table["zzz"] = NoItem
    /\ GatewayIdle
    /\ EndpointIdle
    /\ AgentIdle

NextGateway ==
    \/ GatewayTick
    \/ \E event \in ConnectEvents : ConnectMissingSession(event)
    \/ \E event \in ConnectEvents : ConnectLookupRaises(event)
    \/ \E event \in ConnectEvents : ConnectSessionNotFound(event)
    \/ \E event \in ConnectEvents : ConnectStoreRaises(event)
    \/ \E event \in ConnectEvents : ConnectStored(event)
    \/ \E k \in ConnectionIds, delete_raises \in BOOLEAN :
          handle_disconnect(k, delete_raises)

SpecGateway == InitGateway /\ [][NextGateway]_vars

\* one streaming session on the bridge of any deployment, with a client
\* that sends any requests and closes when it likes
InitStream ==
    /\ now = 0
    /\ callers = {1}
    /\ CBIdle
    /\ RetryIdle
    /\ BedrockIdle
    /\ ProxyIdle
    /\ CacheIdle
    /\ GatewayIdle
    /\ EndpointInit
    /\ AgentIdle

NextStream ==
    \/ \E ok \in BOOLEAN : Startup(ok)
    \/ WsAccept
    \/ \E ok \in BOOLEAN, captured \in BOOLEAN : WsFirstScreenshot(ok, captured)
    \/ \E send_raises \in BOOLEAN : WsFirstSend(send_raises)
    \/ \E ok \in BOOLEAN, captured \in BOOLEAN : TaskScreenshot(ok, captured)
    \/ \E send_raises \in BOOLEAN : TaskSend(send_raises)
    \/ TaskSleep
    \/ \E ok \in BOOLEAN, api_ok \in BOOLEAN : WsClick(ok, api_ok)
    \/ \E ok \in BOOLEAN, api_ok \in BOOLEAN : WsType(ok, api_ok)
    \/ \E ok \in BOOLEAN, api_ok \in BOOLEAN : WsKeyCombination(ok, api_ok)
    \/ WsOther
    \/ WsReceiveRaises
    \/ WsDisconnect
    \/ \E send_raises \in BOOLEAN : WsSendResult(send_raises)
    \/ \E request \in Requests : StreamClientSends(request)
    \/ StreamClientDisconnects
    \/ StreamBackendCloses

SpecStream == InitStream /\ [][NextStream]_vars

\* HTTP requests in any order on the bridge of any deployment
InitBridge ==
    /\ now = 0
    /\ callers = {1}
    /\ CBIdle
    /\ RetryIdle
    /\ BedrockIdle
    /\ ProxyIdle
    /\ CacheIdle
    /\ GatewayIdle
    /\ EndpointInit
    /\ AgentIdle

NextBridge ==
    \/ \E ok \in BOOLEAN : RestStartup(ok)
    \/ \E x \in XCoordinates, y \in YCoordinates, button \in Buttons,
          ok \in BOOLEAN, api_ok \in BOOLEAN :
          handle_click(x, y, button, ok, api_ok)
    \/ \E text \in Texts, ok \in BOOLEAN, api_ok \in BOOLEAN :
          handle_type(text, ok, api_ok)
    \/ \E keys \in KeyNames, ok \in BOOLEAN, api_ok \in BOOLEAN :
          handle_key_combination(keys, ok, api_ok)
    \/ StreamBackendCloses

SpecBridge == InitBridge /\ [][NextBridge]_vars

\* a call of keyboard_input with any text and any key combination
\* one VNCBridge object of any deployment and the calls of its methods
InitMethods ==
    /\ now = 0
    /\ callers = {1}
    /\ CBIdle
    /\ RetryIdle
    /\ BedrockIdle
    /\ ProxyIdle
    /\ CacheIdle
    /\ GatewayIdle
    /\ EndpointInit
    /\ AgentIdle

NextMethods ==
    \/ \E server \in Servers, api_ok \in BOOLEAN : VNCBridge_connect(server, api_ok)
    \/ \E close_raises \in BOOLEAN : VNCBridge_disconnect(close_raises)
    \/ \E ok \in BOOLEAN, captured \in BOOLEAN : VNCBridge_screenshot(ok, captured)
    \/ \E button \in {"left", "right"}, ok \in BOOLEAN, api_ok \in BOOLEAN :
          VNCBridge_click(500, 425, button, ok, api_ok)
    \/ \E text \in Texts, ok \in BOOLEAN, api_ok \in BOOLEAN :
          VNCBridge_type_text(text, ok, api_ok)
    \/ \E keys \in KeyNames, ok \in BOOLEAN, api_ok \in BOOLEAN :
          VNCBridge_key_combination(keys, ok, api_ok)
    \/ \E ok \in BOOLEAN : VNCBridge_move_mouse(500, 425, ok)
    \/ StreamBackendCloses

SpecMethods == InitMethods /\ [][NextMethods]_vars

InitAgent ==
    /\ now = 0
    /\ callers = {1}
    /\ CBIdle
    /\ RetryIdle
    /\ BedrockIdle
    /\ ProxyIdle
    /\ CacheIdle
    /\ GatewayIdle
    /\ EndpointIdle
    /\ AgentInit

NextAgent == keyboard_input \/ vnc_controller

SpecAgent == InitAgent /\ [][NextAgent]_vars

\* one raw event with any arguments on a fallback client
InitEvents ==
    /\ now = 0
    /\ callers = {1}
    /\ CBIdle
    /\ RetryIdle
    /\ BedrockIdle
    /\ ProxyIdle
    /\ CacheIdle
    /\ GatewayIdle
    /\ AgentIdle
    /\ EventInit

NextEvents ==
    \/ PointerEventSent
    \/ KeyEventSent
    \/ StreamBackendCloses

SpecEvents == InitEvents /\ [][NextEvents]_vars

----------------------------------------------------------------------------
(* Claims about the breaker, one caller at a time (SpecCB) *)

\* C1: once failure_threshold consecutive invocations of the wrapped
\* operation have failed the breaker is open, and a call made while it is
\* open and less than recovery_timeout has passed since the last failure is
\* rejected: the operation is not invoked and the breaker stays open.
C1_OpenRejects ==
    /\ [](consec >= failure_threshold => state = "open")
    /\ [][(/\ state = "open"
           /\ now - last_failure_time < recovery_timeout
           /\ attempts' # attempts)
          => (/\ lastCall'.kind = "rejected"
              /\ state' = "open"
              /\ failure_count' = failure_count)]_vars

\* a call was rejected right after the threshold-th consecutive failure
C1_Witness ==
    /\ consec >= failure_threshold
    /\ state = "open"
    /\ lastCall.kind = "rejected"
    /\ now - last_failure_time < recovery_timeout

\* C2: the first call after recovery_timeout has passed on an open breaker
\* is the probe; when it succeeds the breaker ends closed with
\* failure_count = 0, when it fails the breaker ends open again.
C2_ProbeResolves ==
    lastCall.probe =>
        /\ lastCall.kind = "ok" => (state = "closed" /\ failure_count = 0)
        /\ lastCall.kind = "fail" => state = "open"

\* both a succeeding and a failing probe have been seen, the last one failed
C2_Witness ==
    /\ probeOutcomes = {"ok", "fail"}
    /\ lastCall.probe
    /\ lastCall.kind = "fail"
    /\ state = "open"

\* C4: the breaker moves from closed to open only when the most recent
\* failure_threshold invocations of the wrapped operation all failed.
C4_ConsecutiveOnly ==
    [][(state = "closed" /\ state' = "open")
       => consec' >= failure_threshold]_vars

----------------------------------------------------------------------------
(* Claims about the breaker under concurrent callers (SpecCBThreads) *)

\* C3: once the breaker has opened exactly one call is let through as the
\* half-open probe: while the state is half-open at most one of the calls
\* that found the breaker open or half-open is inside the wrapped operation.
C3_SingleProbe ==
    state = "half-open" => Cardinality(CBProbing) <= 1

\* C5: when no call is in progress, failure_count equals the number of
\* failures recorded since the count was last reset, and the breaker is open
\* exactly when failure_count >= failure_threshold.
C5_AtomicUpdate ==
    CBAllIdle =>
        /\ failure_count = recorded
        /\ state = "open" <=> failure_count >= failure_threshold

----------------------------------------------------------------------------
(* Claims about the retry wrappers (SpecRetry) and calculate_backoff       *)
(* (SpecBackoff)                                                           *)

\* C6: with max_attempts >= 1 the wrapped operation is invoked at most
\* max_attempts times; the wrapper returns the result of the first successful
\* invocation and invokes nothing after it; when every attempt failed with a
\* retryable error, the error of the last attempt is raised after exactly
\* max_attempts invocations.
C6_RetryBudget ==
    config.max_attempts >= 1 =>
        /\ invocations <= config.max_attempts
        /\ rpc = "returned" =>
              /\ result.kind = "value"
              /\ result.attempt = invocations
        /\ (rpc = "raised" /\ all_retryable) =>
              /\ invocations = config.max_attempts
              /\ result = [kind |-> "error", attempt |-> config.max_attempts,
                           exc |-> last_exception]
              /\ is_retryable_exception(result.exc, config)

\* every attempt of a budget of at least three failed with a retryable error
C6_Witness ==
    /\ config.max_attempts >= 3
    /\ rpc = "raised"
    /\ all_retryable
    /\ invocations = config.max_attempts

\* C7 as stated: the delay calculate_backoff returns is non-decreasing in the
\* attempt number, and with jitter enabled it is never below the non-jittered
\* value.
C7_ReturnedDelayMonotone ==
    \A i, j \in DOMAIN backoffs :
        /\ (i < j /\ backoffs[i].attempt < backoffs[j].attempt)
              => backoffs[i].delay <= backoffs[j].delay
        /\ config.jitter
              => backoffs[i].delay
                    >= BaseDelay(backoffs[i].attempt, config) * DelayScale

\* C7, amended: the non-jittered delay min(initial_delay *
\* exponential_base^(n-1), max_delay) is non-decreasing in n and at most
\* max_delay, and it is the delay returned when jitter is off; with jitter
\* enabled the returned delay is never below the non-jittered value of its
\* attempt, nor of any earlier attempt, and is less than 1.25 times the
\* non-jittered value of its attempt.
C7_BaseDelayMonotone ==
    \A i \in DOMAIN backoffs :
        LET c == backoffs[i]
            base == BaseDelay(c.attempt, config) * DelayScale
        IN  /\ base <= c.delay
            /\ 4 * c.delay < 5 * base
            /\ ~config.jitter => c.delay = base
            /\ base <= config.max_delay * DelayScale
            /\ \A j \in DOMAIN backoffs :
                  backoffs[j].attempt <= c.attempt =>
                      BaseDelay(backoffs[j].attempt, config) * DelayScale
                          <= c.delay

\* a capped delay with the largest jitter, computed after an uncapped one
C7_Witness ==
    /\ Len(backoffs) = 2
    /\ config.jitter
    /\ backoffs[1].attempt < backoffs[2].attempt
    /\ BaseDelay(backoffs[1].attempt, config) < config.max_delay
    /\ BaseDelay(backoffs[2].attempt, config) = config.max_delay
    /\ backoffs[2].r = JitterSteps - 1
    /\ backoffs[2].delay > config.max_delay * DelayScale

\* C8: once the session's client connection has closed, the wrapper makes no
\* further invocation of the wrapped operation.
C8_AbortsOnClose ==
    client_closed => invocations = inv_at_close

\* the wrapped operation raises: the wrapper leaves `func(...)` for the
\* except block
FuncRaises == rpc = "calling" /\ rpc' \in {"raised", "sleeping"}

\* C37: a failure classified as non-retryable is raised to the caller by the
\* invocation that met it: the wrapper computes no backoff, does not sleep
\* and invokes the operation no further, whatever attempts remain.
C37_FatalRaisedAtOnce ==
    /\ [][(FuncRaises /\ ~is_retryable_exception(last_exception', config))
          => (/\ rpc' = "raised"
              /\ result' = [kind |-> "error", attempt |-> attempt,
                            exc |-> last_exception']
              /\ invocations' = invocations
              /\ delay' = delay)]_vars
    /\ [][rpc = "raised" => (rpc' = "raised" /\ invocations' = invocations)]_vars

\* a non-retryable failure of the second of four attempts was raised
C37_Witness ==
    /\ rpc = "raised"
    /\ config.max_attempts = 4
    /\ result.kind = "error"
    /\ result.attempt = 2
    /\ invocations = 2
    /\ result.exc.code = "AccessDeniedException"
    /\ ~is_retryable_exception(result.exc, config)

\* C40: for every RetryConfig, max_attempts <= 0 included, a call through
\* the wrapper that returns normally returns the result of a successful
\* invocation of the wrapped operation.
C40_ReturnsOnlyAfterSuccess ==
    rpc = "returned" => (invocations >= 1 /\ result.kind = "value")

----------------------------------------------------------------------------
(* Claims about the session registry cache (SpecCache) *)

\* C9: a resolve returns a cached value only if now - fetch_time < cache_ttl:
\* an entry whose TTL has passed is not served, the resolve performs a fresh
\* durable lookup instead.
C9_NeverServesExpired ==
    res.hit => res.age < cache_ttl

\* C10: when the previous resolve of a session id returned an endpoint, the
\* next resolve of that id returns the identical endpoint and performs no
\* durable lookup (whatever time lies between the two, so within any TTL).
C10_SecondResolveFromCache ==
    [][\A s \in SessionIds :
          (resolved' = resolved + 1 /\ res'.sid = s /\ last_result[s] \in Ips)
          => (/\ res'.result = last_result[s]
              /\ lookups' = lookups
              /\ session_cache' = session_cache)]_vars

\* the second resolve of an id was served from the cache although the table
\* had changed in between
C10_Witness ==
    /\ resolved >= 2
    /\ res.hit
    /\ res.age < cache_ttl
    /\ res.result \in Ips
    /\ lookups = 1
    /\ sessions_table[res.sid] # session_cache[res.sid]

\* C11: when the durable lookup fails or finds no endpoint for the session
\* id, the resolve returns NotFound and leaves the cache unchanged; an entry
\* is inserted only by a lookup that found an endpoint; and the resolve that
\* follows a NotFound of the same id performs the durable lookup again.
C11_NotFoundNotCached ==
    [][\A s \in SessionIds :
          (resolved' = resolved + 1 /\ res'.sid = s) =>
              /\ res'.result = NotFound =>
                     (session_cache' = session_cache /\ lookups' = lookups + 1)
              /\ session_cache' # session_cache =>
                     (/\ ~res'.hit
                      /\ lookups' = lookups + 1
                      /\ res'.result \in Ips
                      /\ res'.result = sessions_table[s].task_ip)
              /\ last_result[s] = NotFound => lookups' = lookups + 1]_vars

\* three resolves, three lookups and one cached id: the other id was looked
\* up twice and not found either time, the second time by the last resolve
C11_Witness ==
    /\ resolved = 3
    /\ lookups = 3
    /\ Cardinality(DOMAIN session_cache) = 1
    /\ res.result = NotFound
    /\ res.sid \notin DOMAIN session_cache

----------------------------------------------------------------------------
(* Claims about the response cache (SpecBedrock) *)

\* the key is the pattern with something before and something after it
IsSubstring(pattern, k) ==
    \E i \in 0..Len(k), j \in 0..Len(k) :
        /\ i <= j
        /\ pattern = [n \in 1..(j - i) |-> k[i + n]]

\* C12: invalidate(pattern) removes every cached entry whose key contains the
\* pattern as a substring and leaves every other entry unchanged; after it,
\* the next lookup of a removed key misses the local cache and goes to the
\* durable lookup.
C12_InvalidateRemovesMatching ==
    /\ [][invalidated'.calls = invalidated.calls + 1 =>
             /\ DOMAIN memory_cache' =
                    {k \in DOMAIN memory_cache :
                        ~IsSubstring(invalidated'.pattern, k)}
             /\ \A k \in DOMAIN memory_cache' :
                    memory_cache'[k] = memory_cache[k]]_vars
    /\ [][\A k \in removed :
             (got' # got /\ got'.key = k) =>
                 (~got'.memory_hit /\ got'.table_read)]_vars

\* a pattern removed one of two cached keys, and the next get of the removed
\* key went to the table
C12_Witness ==
    /\ invalidated.calls = 1
    /\ Len(invalidated.pattern) > 0
    /\ Cardinality(DOMAIN memory_cache) = 2
    /\ IsSubstring(invalidated.pattern, got.key)
    /\ got.table_read
    /\ got.value # NoValue
    /\ \E k \in DOMAIN memory_cache : ~IsSubstring(invalidated.pattern, k)

----------------------------------------------------------------------------
(* Claims about the websocket proxy (SpecProxy, SpecProxyLive) *)

\* the handler has returned or raised
Terminated(c) == proxy[c].hpc \in {"done", "raised"}

\* the state of the session's state machine the handler is in; the steps
\* that report and close on the way out belong to the state they leave
Phase(c) ==
    CASE proxy[c].hpc = "accept" -> "INIT"
      [] proxy[c].hpc \in {"resolve", "nf_send", "nf_close"} -> "RESOLVING"
      [] proxy[c].hpc \in {"connect", "err_send"} -> "CONNECTING"
      [] proxy[c].hpc = "gather" -> "STREAMING"
      [] proxy[c].hpc \in {"finally", "finally_close"} ->
             IF proxy[c].vnc_ws = "none" THEN "CONNECTING" ELSE "STREAMING"
      [] Terminated(c) ->
             IF proxy[c].vnc_ws = "none" THEN "FAILED" ELSE "CLOSED"

PhaseSteps ==
    {<<"INIT", "RESOLVING">>, <<"RESOLVING", "CONNECTING">>,
     <<"CONNECTING", "STREAMING">>, <<"STREAMING", "CLOSED">>,
     <<"INIT", "FAILED">>, <<"RESOLVING", "FAILED">>,
     <<"CONNECTING", "FAILED">>, <<"STREAMING", "FAILED">>}

\* a relay coroutine of c has started or has moved a frame
Relaying(c) ==
    \/ proxy[c].c2v # "idle"
    \/ proxy[c].v2c # "idle"
    \/ proxy[c].c2v_read > 0
    \/ proxy[c].v2c_read > 0
    \/ proxy[c].to_vnc # <<>>
    \/ proxy[c].to_client # <<>>

\* C13: each session follows INIT -> RESOLVING -> CONNECTING -> STREAMING ->
\* CLOSED, with FAILED reachable from any non-terminal state: a backend
\* connection is opened only after the session id resolved to an endpoint,
\* relaying starts only after the backend connection is open, and after
\* CLOSED or FAILED no lookup, connect or relay happens for the session.
C13_SessionStateMachine ==
    /\ [](proxy["c1"].connects > 0 => proxy["c1"].desktop_ip \in Ips)
    /\ [](Relaying("c1") => proxy["c1"].vnc_ws # "none")
    /\ [][Phase("c1")' # Phase("c1")
            => <<Phase("c1"), Phase("c1")'>> \in PhaseSteps]_vars
    /\ [][Terminated("c1") =>
            /\ proxy'["c1"].hpc = proxy["c1"].hpc
            /\ proxy'["c1"].connects = proxy["c1"].connects
            /\ proxy'["c1"].to_vnc = proxy["c1"].to_vnc
            /\ proxy'["c1"].to_client = proxy["c1"].to_client
            /\ proxy'["c1"].c2v_read = proxy["c1"].c2v_read
            /\ proxy'["c1"].v2c_read = proxy["c1"].v2c_read
            /\ lookups' = lookups]_vars

\* a session that went through every state: frames were relayed both ways
\* and the handler has returned
C13_Witness ==
    /\ Phase("c1") = "CLOSED"
    /\ proxy["c1"].to_vnc # <<>>
    /\ proxy["c1"].to_client # <<>>
    /\ proxy["c1"].desktop_ip \in Ips

\* C15: when the lookup of the session id returns not-found, the client is
\* told "Session not found" and its connection is closed, and no backend
\* connection is attempted: the session never enters CONNECTING.
C15_NotFoundNeverConnects ==
    \/ proxy["c1"].hpc \in {"accept", "resolve"}
    \/ proxy["c1"].desktop_ip \in Ips
    \/ /\ proxy["c1"].hpc \in {"nf_send", "nf_close", "done", "raised"}
       /\ proxy["c1"].connects = 0
       /\ proxy["c1"].vnc_ws = "none"
       /\ Terminated("c1") =>
              \/ proxy["c1"].client = "gone"
              \/ /\ proxy["c1"].reported = SessionNotFound
                 /\ proxy["c1"].websocket = "closed"

\* session zzz is not in the table: its client, still connected, was told
\* so and the handler closed the connection
C15_Witness ==
    /\ proxy["c1"].session_id = "zzz"
    /\ proxy["c1"].hpc = "done"
    /\ proxy["c1"].client = "connected"
    /\ proxy["c1"].reported = SessionNotFound
    /\ proxy["c1"].websocket = "closed"
    /\ proxy["c1"].connects = 0

\* C16: the backend connect goes through the retry policy: a single
\* transient connect failure followed by a success leads to STREAMING, and
\* the session fails only when every attempt of the budget has failed.  So
\* a session whose backend refuses one connect and accepts the next does
\* not end without a backend connection.
C16_ConnectIsRetried ==
    (/\ proxy["c1"].backend_fails = 1
     /\ proxy["c1"].desktop_ip \in Ips
     /\ Terminated("c1"))
    => (proxy["c1"].vnc_ws # "none" /\ proxy["c1"].reported # ConnectError)

\* C17: during STREAMING, when the client side closes, the session
\* eventually ends: the backend-to-client relay is cancelled and the backend
\* connection is closed, also when the backend sends nothing more.
C17_ClientCloseEndsSession ==
    (proxy["c1"].hpc = "gather" /\ proxy["c1"].client = "gone")
    ~> (proxy["c1"].v2c = "done" /\ proxy["c1"].vnc_ws = "closed")

\* C18: during STREAMING, when the backend side closes or its stream ends,
\* the session eventually ends: the client-to-backend relay is cancelled and
\* the client connection is closed, also when the client sends nothing more
\* and does not disconnect.
C18_BackendCloseEndsSession ==
    (proxy["c1"].hpc = "gather" /\ proxy["c1"].backend = "closed")
    ~> (proxy["c1"].c2v = "done" /\ proxy["c1"].websocket = "closed")

\* C19: whenever the handler of a session terminates after a backend
\* connection was opened, both the backend connection and the client
\* connection of the session have been closed (after a failed connect the
\* client connection has been closed).
C19_TerminatedClosesBoth ==
    Terminated("c1") =>
        /\ proxy["c1"].vnc_ws # "none" =>
               (proxy["c1"].vnc_ws = "closed" /\ proxy["c1"].websocket = "closed")
        /\ proxy["c1"].connects > 0 => proxy["c1"].websocket = "closed"

\* the handler returned after a relay ended on an error (a text frame from
\* the client) while the client was still connected
C19_Witness ==
    /\ proxy["c1"].hpc = "done"
    /\ proxy["c1"].vnc_ws = "closed"
    /\ proxy["c1"].websocket = "closed"
    /\ proxy["c1"].client = "connected"
    /\ \E i \in 1..proxy["c1"].c2v_read :
           proxy["c1"].from_client[i].kind = "text"

IsPrefix(p, q) == Len(p) <= Len(q) /\ p = SubSeq(q, 1, Len(p))

\* C20: within one relay direction the frames delivered to the receiving
\* side are always a prefix of the frames received from the sending side:
\* nothing is reordered, duplicated, lost in the middle, merged or changed.
C20_RelayInOrder ==
    /\ IsPrefix(proxy["c1"].to_vnc, proxy["c1"].from_client)
    /\ IsPrefix(proxy["c1"].to_client, proxy["c1"].from_vnc)

\* two different frames went each way
C20_Witness ==
    /\ Len(proxy["c1"].to_vnc) = 2
    /\ proxy["c1"].to_vnc[1] # proxy["c1"].to_vnc[2]
    /\ Len(proxy["c1"].to_client) = 2
    /\ proxy["c1"].to_client[1].kind # proxy["c1"].to_client[2].kind

\* a frame taken from the client was not delivered to the backend:
\* receive_bytes or vnc_ws.send raised in client_to_vnc
RelayFailed(c) == proxy[c].c2v_read > Len(proxy[c].to_vnc)

\* C27: every terminal failure of a session (session not found, backend
\* connect failure, I/O error in a relay during streaming) sends the client
\* an error payload before the client connection is closed: a session that
\* failed and whose client was there to the end has got one.
C27_FailureIsReported ==
    \A c \in Conns :
        (/\ Terminated(c)
         /\ proxy[c].client = "connected"
         /\ \/ ~Resolved(proxy[c].desktop_ip)
            \/ proxy[c].vnc_ws = "none"
            \/ RelayFailed(c))
        => proxy[c].reported # NoReport

----------------------------------------------------------------------------
(* Claims about the gateway handler (SpecGateway) *)

\* the request names no session: it has no query string, or no sessionId in
\* it, or an empty one
CarriesNoSession(event) ==
    \/ ~event.has_query
    \/ \A kv \in event.queryStringParameters :
           kv[1] = "sessionId" => kv[2] = ""

\* C14: a client connection that carries no session identifier is rejected
\* at once with a MissingSession failure: no registry lookup is performed,
\* no connection record is stored, and no backend connection is opened.
C14_MissingSessionRejected ==
    [][(/\ gateway_calls' = gateway_calls + 1
        /\ connect_event' \in ConnectEvents
        /\ connect_response'.body # "Disconnected"
        /\ CarriesNoSession(connect_event'))
       => (/\ connect_response' = Response(400, "Missing sessionId parameter")
           /\ connect_lookups' = connect_lookups
           /\ connect_puts' = connect_puts
           /\ connections_table' = connections_table
           /\ proxy' = proxy)]_vars

\* a connection was stored, then a request with an empty sessionId was
\* rejected
C14_Witness ==
    /\ connect_response = Response(400, "Missing sessionId parameter")
    /\ connect_event.has_query
    /\ <<"sessionId", "">> \in connect_event.queryStringParameters
    /\ connect_lookups = 1
    /\ connect_puts = 1
    /\ \E k \in ConnectionIds : connections_table[k] # NoConnection

----------------------------------------------------------------------------
(* Claims about two connections on one event loop (SpecProxy2) *)

\* the handler of a waits for the session registry (get_item of line 47)
\* or for the backend to answer the connect of line 140
Pending(a) ==
    \/ proxy[a].hpc = "resolve" /\ ~CacheHit(proxy[a].session_id)
    \/ proxy[a].hpc = "connect"

\* C21: a session whose registry lookup or backend connect is pending does
\* not stall the other sessions: whenever the handler of one connection
\* waits for the lookup or for the connect, every step that the handler or
\* a relay coroutine of another connection is ready to take (accept, relay,
\* close) can be taken.
C21_PendingDoesNotStall ==
    \A a \in Conns : \A b \in Conns \ {a} :
        Pending(a) /\ ENABLED ProxyStep(b) => ENABLED LoopStep(b)

----------------------------------------------------------------------------
(* Claims about the action endpoint (SpecStream) *)

\* C22: on the streaming action endpoint the first message sent to the
\* client after the accept is a screenshot frame {type: "screenshot", data,
\* timestamp}: no action_result and no other message comes before it.
C22_FirstMessageIsScreenshot ==
    stream.outbox # <<>> =>
        /\ stream.outbox[1].type = "screenshot"
        /\ DOMAIN stream.outbox[1] = {"type", "data", "timestamp"}

IsActionResult(message) == message.type = "action_result"

IsActionRequest(request) == request.type \in ActionTypes

\* the action fields of the action_results sent so far, in order
ResultActions ==
    LET results == SelectSeq(stream.outbox, IsActionResult)
    IN  [i \in 1..Len(results) |-> results[i].action]

\* the types of the click, type and key_combination messages received so
\* far, in order
ReceivedActions ==
    LET requests == SelectSeq(SubSeq(stream.inbox, 1, stream.read),
                              IsActionRequest)
    IN  [i \in 1..Len(requests) |-> requests[i].type]

\* C23: every message of type click, type or key_combination that the
\* handler has received yields exactly one action_result whose action field
\* names the type of the message, and the action_results are sent in the
\* order of the requests: the results sent are a prefix of the requests
\* received and, as long as the client is connected, all of them but the
\* one in hand, and all of them once the handler waits for the next
\* message.
C23_OneResultPerRequestInOrder ==
    /\ IsPrefix(ResultActions, ReceivedActions)
    /\ stream.client = "connected" =>
          /\ Len(ReceivedActions) - Len(ResultActions) <= 1
          /\ stream.wpc = "receive" => ResultActions = ReceivedActions

\* two requests of different types were both answered
C23_Witness ==
    /\ stream.wpc = "receive"
    /\ stream.client = "connected"
    /\ Len(ResultActions) = 2
    /\ ResultActions[1] # ResultActions[2]

\* the constraints of a click: coordinates >= 0, button one of left, right,
\* middle
ValidClick(x, y, button) ==
    x >= 0 /\ y >= 0 /\ button \in {"left", "right", "middle"}

\* a request that breaks the constraints of its action
InvalidRequest(request) ==
    \/ request.type = "click"
          /\ ~ValidClick(request.x, request.y, request.button)
    \/ request.type = "key_combination"
          /\ lower(request.keys) \notin DOMAIN key_map

\* the bridge drives the fallback client (no mock, no library)
FallbackClient == bridge.client = "VNCClient" /\ ~bridge.vncdotool

\* C26: with the fallback client, a click that breaks the constraints of a
\* click, or a key combination that names no key of the key map, is
\* answered inside the streaming session by an action_result with
\* success = false, writes nothing to the backend, and leaves the session
\* streaming: the handler goes on to the next message.
C26_ValidationErrorReported ==
    /\ [][(stream.wpc = "receive" /\ stream'.read = stream.read + 1
              /\ FallbackClient
              /\ InvalidRequest(NextRequest))
          => (/\ stream'.wpc = "send_result"
              /\ ~stream'.success
              /\ bridge'.written = bridge.written
              /\ bridge'.api = bridge.api)]_vars
    /\ [][(stream.wpc = "send_result" /\ stream'.outbox # stream.outbox
              /\ FallbackClient
              /\ InvalidRequest(stream.inbox[stream.read]))
          => (/\ stream'.outbox =
                    Append(stream.outbox,
                           ActionResult(stream.inbox[stream.read].type, FALSE))
              /\ stream'.wpc = "receive")]_vars

----------------------------------------------------------------------------
(* Claims about the bridge and its protocol client (SpecBridge) *)

\* the request answered by this step
Answers(endpoint) == rest'.calls # rest.calls /\ rest'.endpoint = endpoint

\* C24: an invalid action request never reaches the protocol client: a
\* click with a negative coordinate or with a button outside {left, right,
\* middle} makes no call of the VNCClient or of the library and writes no
\* pointer event to the backend.
C24_InvalidClickNeverReachesClient ==
    [][(Answers("click") /\ ~ValidClick(rest'.x, rest'.y, rest'.button))
       => (/\ bridge'.calls = bridge.calls
           /\ bridge'.api = bridge.api
           /\ bridge'.written = bridge.written)]_vars

\* a 6-byte pointer event at (x, y): tag 5, a mask byte, x and y as two
\* bytes each, most significant byte first
IsPointerEventAt(msg, x, y) ==
    /\ Len(msg) = 6
    /\ \A i \in 1..6 : msg[i] \in 0..255
    /\ msg[1] = 5
    /\ msg[3] * 256 + msg[4] = x
    /\ msg[5] * 256 + msg[6] = y

\* the mask of the protocol with one button pressed
MaskOf(button) ==
    CASE button = "left" -> 1
      [] button = "middle" -> 2
      [] button = "right" -> 4

\* C28: a valid click through the fallback client, connected to a backend
\* that is up, writes to the backend, in order, a pointer event at (x, y)
\* with the mask of the pressed button and a pointer event at (x, y) with
\* that button no longer pressed.
C28_ClickPressesAndReleases ==
    [][(/\ Answers("click")
        /\ ValidClick(rest'.x, rest'.y, rest'.button)
        /\ FallbackClient
        /\ bridge.writer = "open" /\ bridge.backend = "up")
       => (/\ Len(bridge'.written) = Len(bridge.written) + 2
           /\ SubSeq(bridge'.written, 1, Len(bridge.written)) = bridge.written
           /\ LET press == bridge'.written[Len(bridge.written) + 1]
                  release == bridge'.written[Len(bridge.written) + 2]
              IN  /\ IsPointerEventAt(press, rest'.x, rest'.y)
                  /\ press[2] = MaskOf(rest'.button)
                  /\ IsPointerEventAt(release, rest'.x, rest'.y)
                  /\ release[2] = 0)]_vars

----------------------------------------------------------------------------
(* Claims about the tools of the agent (SpecAgent) *)

HasPlus(s) == \E i \in DOMAIN s : s[i] = "+"

\* p is one or more modifiers, each followed by a '+'
RECURSIVE IsModifiers(_)
IsModifiers(p) ==
    \E m \in valid_modifiers :
        /\ Len(p) > Len(m)
        /\ SubSeq(p, 1, Len(m)) = m
        /\ p[Len(m) + 1] = "+"
        /\ \/ Len(p) = Len(m) + 1
           \/ IsModifiers(SubSeq(p, Len(m) + 2, Len(p)))

\* s is one or more modifiers joined by '+', a '+' and one terminal key
IsCombination(s) ==
    \E k \in 1..(Len(s) - 1) :
        /\ IsModifiers(SubSeq(s, 1, k))
        /\ ~HasPlus(SubSeq(s, k + 1, Len(s)))

\* C25: a key combination is accepted exactly when it splits on '+' into one
\* or more modifiers, each of ctrl, alt, shift, cmd and meta, followed by
\* exactly one terminal key: "ctrl+c" is accepted, a combination with no
\* '+' such as "shift" is rejected.  Upper and lower case are not told
\* apart.
C25_CombinationValidated ==
    (agent.tool = "keyboard_input" /\ ~NotGiven(agent.key_combination))
    => (agent.status = "executed"
           <=> IsCombination(LowerCase(agent.key_combination)))

\* C36: vnc_controller reports status "executed" exactly when the action is
\* one of the valid actions, the button is one of left, right, middle and
\* both coordinates are non-negative; in every other case it reports
\* status "failed" with an error; it changes nothing but its result.
C36_ControllerValidates ==
    /\ agent.tool = "vnc_controller"
          => LET valid == /\ agent.action \in
                                {"click", "double_click", "right_click", "drag"}
                          /\ agent.button \in {"left", "right", "middle"}
                          /\ agent.x >= 0
                          /\ agent.y >= 0
             IN  /\ agent.status = IF valid THEN "executed" ELSE "failed"
                 /\ (agent.error # "") <=> ~valid
    /\ EndpointIdle

\* the call of the test: vnc_controller('click', 100, 200, 'left')
C36_Witness ==
    /\ agent.tool = "vnc_controller"
    /\ agent.action = "click"
    /\ agent.x = 100
    /\ agent.y = 200
    /\ agent.button = "left"
    /\ agent.status = "executed"

----------------------------------------------------------------------------
(* Claims about the raw events of the fallback client (SpecEvents) *)

\* the call is made on a client whose stream is open
CallsOnOpenStream(kind) ==
    /\ raw_event.kind = kind
    /\ ~raw_event.called
    /\ raw_event'.called
    /\ bridge.writer = "open"
    /\ bridge.backend = "up"

\* C29: for every button mask in 0..255 and every x and y in 0..65535,
\* _send_pointer_event writes exactly one message of 6 bytes: the tag 5, the
\* byte of the button mask, x as 2 bytes and y as 2 bytes, both with the
\* most significant byte first.
C29_PointerEventEncoding ==
    [][(/\ CallsOnOpenStream("pointer")
        /\ raw_event.button_mask \in 0..255
        /\ raw_event.x \in 0..65535
        /\ raw_event.y \in 0..65535)
       => (/\ raw_event'.ret
           /\ Len(bridge'.written) = Len(bridge.written) + 1
           /\ LET msg == bridge'.written[Len(bridge'.written)]
              IN  /\ IsPointerEventAt(msg, raw_event.x, raw_event.y)
                  /\ msg[2] = raw_event.button_mask)]_vars

\* the event with mask 255 at (500, 65535) was written
C29_Witness ==
    /\ raw_event.kind = "pointer"
    /\ raw_event.called
    /\ raw_event.ret
    /\ raw_event.button_mask = 255
    /\ raw_event.x = 500
    /\ raw_event.y = 65535
    /\ bridge.written = <<<<5, 255, 1, 244, 255, 255>>>>

\* an 8-byte key event: tag 4, the down flag, two zero bytes, the key code
\* as four bytes, most significant byte first
IsKeyEvent(msg, key, down) ==
    /\ Len(msg) = 8
    /\ \A i \in 1..8 : msg[i] \in 0..255
    /\ msg[1] = 4
    /\ msg[2] = IF down THEN 1 ELSE 0
    /\ msg[3] = 0
    /\ msg[4] = 0
    /\ ((msg[5] * 256 + msg[6]) * 256 + msg[7]) * 256 + msg[8] = key

\* C30: for every key code of 32 bits and either down flag, _send_key_event
\* on a connected client writes exactly one message of 8 bytes: the tag 4,
\* the down flag (1 for down, 0 for up), two zero bytes and the key code as
\* 4 bytes with the most significant byte first, and returns True.
C30_KeyEventEncoding ==
    [][(CallsOnOpenStream("key") /\ raw_event.key >= 0)
       => (/\ raw_event'.ret
           /\ Len(bridge'.written) = Len(bridge.written) + 1
           /\ IsKeyEvent(bridge'.written[Len(bridge'.written)],
                         raw_event.key, raw_event.down))]_vars

----------------------------------------------------------------------------
(* Claims about the methods of the bridge (SpecMethods) *)

\* the step is a call of the method
Calls(method) == call'.n = call.n + 1 /\ call'.method = method

\* the bridge holds the fallback client, connected to a backend that is up
OnOpenFallback ==
    /\ FallbackClient
    /\ bridge.connected
    /\ bridge.writer = "open"
    /\ bridge.backend = "up"

\* what the step wrote to the backend
NewlyWritten ==
    SubSeq(bridge'.written, Len(bridge.written) + 1, Len(bridge'.written))

\* the events are down(c1), up(c1), ..., down(cn), up(cn) for the keys c1..cn
RECURSIVE AreKeyEventsOf(_, _)
AreKeyEventsOf(events, keys) ==
    IF keys = <<>> THEN events = <<>>
    ELSE /\ Len(events) >= 2
         /\ IsKeyEvent(events[1], Head(keys), TRUE)
         /\ IsKeyEvent(events[2], Head(keys), FALSE)
         /\ AreKeyEventsOf(SubSeq(events, 3, Len(events)), Tail(keys))

\* C31: for a text c1..cn typed through the fallback client on an open
\* stream, the key events written to the stream are, in order, down(c1),
\* up(c1), ..., down(cn), up(cn), each with the code point of its character,
\* and nothing else is written.
C31_TypeTextEvents ==
    [][(Calls("type_text") /\ OnOpenFallback)
       => (/\ IsPrefix(bridge.written, bridge'.written)
           /\ AreKeyEventsOf(NewlyWritten, call'.text))]_vars

\* C32: a move on a bridge that has a client reports success only after the
\* client was called to send it, and through the fallback client on an open
\* stream it writes one pointer event at (x, y) with the button mask 0.
C32_MoveIsPointerEvent ==
    [][(Calls("move_mouse") /\ bridge.client # NoClient /\ call'.ret)
       => (/\ bridge'.calls # bridge.calls
           /\ OnOpenFallback
                 => (/\ Len(NewlyWritten) = 1
                     /\ IsPointerEventAt(NewlyWritten[1], call'.x, call'.y)
                     /\ NewlyWritten[1][2] = 0))]_vars

\* the names the fallback client maps
NamedKeys ==
    {"enter", "tab", "escape", "backspace", "delete", "up", "down", "left",
     "right"}

\* C33: through the fallback client on an open stream, a key name of the
\* fixed set (in any case) is written as a key-down and a key-up event with
\* its key code and reported as sent; any other name is reported as failed
\* and writes nothing.
C33_KeyPressMapsNames ==
    [][(Calls("key_combination") /\ OnOpenFallback)
       => IF lower(call'.keys) \in NamedKeys
          THEN /\ call'.ret
               /\ IsPrefix(bridge.written, bridge'.written)
               /\ AreKeyEventsOf(NewlyWritten, <<key_map[lower(call'.keys)]>>)
          ELSE /\ ~call'.ret
               /\ bridge'.written = bridge.written]_vars

\* C34: a screenshot of the bridge always gives an image: the capture of the
\* client, or the placeholder when the bridge has no client or its capture
\* gave none.
C34_ScreenshotAlwaysImage ==
    call.method = "screenshot"
    => (/\ call.ret
        /\ call.image # NoImage
        /\ call.variant = "mock" => call.image = "mock")

\* "RFB xxx.yyy\n" with decimal digits x and y
WellFormedVersion(version) ==
    /\ Len(version) = 12
    /\ SubSeq(version, 1, 4) = <<82, 70, 66, 32>>
    /\ \A i \in {5, 6, 7, 9, 10, 11} : version[i] \in 48..57
    /\ version[8] = 46
    /\ version[12] = 10

\* C35: the fallback connect reads the version line of the server before
\* it writes its own, and it fails, leaving the bridge not connected and
\* without an open stream, when the stream cannot be opened or the line
\* read is not a well-formed version line (malformed, empty, truncated).
C35_ConnectChecksVersion ==
    [][(Calls("connect") /\ FallbackClient /\ bridge.writer = "absent")
       => (/\ bridge'.hello \in {<<"open">>, <<"open", "read">>,
                                 <<"open", "read", "write">>}
           /\ (~call'.opens \/ ~WellFormedVersion(call'.version))
                 => (/\ ~call'.ret
                     /\ ~bridge'.connected
                     /\ bridge'.writer = "absent"))]_vars

\* the implementation the bridge was built with: USE_REAL_VNC and the import
\* of the library
Built(b) ==
    IF ~b.use_real_vnc THEN "mock"
    ELSE IF b.vncdotool THEN "library"
    ELSE "fallback"

\* C38: a bridge built with a client never serves a click, a text or a key
\* combination from the mock implementation, whatever calls of connect,
\* disconnect and of actions came before it.
C38_VariantFixed ==
    (call.method \in {"click", "type_text", "key_combination"}
        /\ Built(bridge) # "mock")
    => call.variant # "mock"

\* C39: through the fallback client type_text reports success only if a
\* key-down and a key-up event were written for every character of the
\* text: with no open stream, or with a key event that is not sent, it
\* reports failure.
C39_TypeTextReportsFailure ==
    [][(Calls("type_text") /\ FallbackClient /\ call'.variant = "fallback"
           /\ call'.ret)
       => Len(bridge'.written) = Len(bridge.written) + 2 * Len(call'.text)]_vars

====
